---- MODULE Spec2Model ----
(***************************************************************************)
(* Model of the Fyrox sound synchronizer (scene/sound/context.rs) and of   *)
(* the effect graph of fyrox-sound (effects/mod.rs).                       *)
(*                                                                         *)
(* Four specifications share the variables:                                *)
(*   Spec        the control thread drives SoundContext for one sound,     *)
(*               every handler is one step;                                *)
(*   SpecPair    the sounds of the scene are enabled, disabled and synced; *)
(*   SpecRender  the fyrox-sound source and effect API is driven directly; *)
(*   SpecRT      control thread and render thread interleave under the     *)
(*               backend state guard.                                      *)
(***************************************************************************)
EXTENDS Integers, Sequences, FiniteSets, TLC

\* ------------------------------------------------------------------ bounds
\* Number of sound nodes of the scene.
NumSounds == 2
\* Number of edits of the model (field writes, toggles, effect add/remove).
MaxEdits == 2
\* Number of slots the backend source pool may grow to in SpecRender.
MaxSlots == 2
\* Largest generation a pool slot may reach.
MaxGen == 2
\* Largest number of inputs of one effect in SpecRender.
MaxInputs == 2
\* Number of calls a client makes in SpecRender, and the control thread in
\* SpecRT.
MaxOps == 8
\* Largest number of calls of the context in SpecArena.
MaxTicks == 6
\* Largest number of calls of a client in SpecMix and SpecStub.
MaxMixOps == 4
\* Number of consecutive control ticks SpecTicks lets pass for reconciliation
\* to settle.
SettleTicks == 3

VARIABLES
    effects,        \* SoundContext.effects: model side Pool<Effect>
    sounds,         \* the Sound payload of every sound node
    sources,        \* backend Pool<SoundSource>
    nativeEffects,  \* backend Pool<Effect>
    calls,          \* backend calls made by the last operation
    last,           \* the sync_to_sound call that was the last operation, if any
    hist,           \* per sound: the fields written since its last sync_to_sound,
                    \* whether a construction failed, whether sync_with_sound
                    \* pulled since the last sync_to_sound,
                    \* and whether its last effect lookup found no effect
    settings,       \* master gain, renderer, distance model and paused flag of
                    \* SoundContext, and what the backend was given for each
    panicked,       \* a panicking accessor was given an invalid handle
    edits,          \* number of model edits, or of client calls, so far
    guard,          \* owner of the backend state guard
    ctl,            \* position of the control thread inside sync_to_sound
    rt              \* position of the render thread inside a render pass

vars == <<effects, sounds, sources, nativeEffects, calls, last, hist,
          settings, panicked, edits, guard, ctl, rt>>

\* ------------------------------------------------------------- Pool<T>
\* Handle::NONE: index 0, generation 0 (INVALID_GENERATION).
NONE == [index |-> 0, generation |-> 0]

IsSome(h) == h.generation # 0

\* A free pool record.
Vacant == [vacant |-> TRUE]

EmptyPool == [records |-> <<>>, free_stack |-> <<>>]

IsValidHandle(pool, h) ==
    /\ h.index \in 1..Len(pool.records)
    /\ pool.records[h.index].generation = h.generation
    /\ pool.records[h.index].payload # Vacant

\* The handle the next spawn returns: the slot freed last with its generation
\* raised, or a new slot of generation 1.
SpawnHandle(pool) ==
    IF pool.free_stack # <<>>
    THEN LET i == pool.free_stack[Len(pool.free_stack)]
         IN  [index |-> i, generation |-> pool.records[i].generation + 1]
    ELSE [index |-> Len(pool.records) + 1, generation |-> 1]

Spawn(pool, payload) ==
    LET h == SpawnHandle(pool)
        rec == [generation |-> h.generation, payload |-> payload]
    IN  IF pool.free_stack # <<>>
        THEN [records |-> [pool.records EXCEPT ![h.index] = rec],
              free_stack |-> SubSeq(pool.free_stack, 1, Len(pool.free_stack) - 1)]
        ELSE [records |-> Append(pool.records, rec),
              free_stack |-> pool.free_stack]

Free(pool, h) ==
    [records |-> [pool.records EXCEPT ![h.index].payload = Vacant],
     free_stack |-> Append(pool.free_stack, h.index)]

Borrow(pool, h) == pool.records[h.index].payload

RECURSIVE ClearFrom(_, _)
ClearFrom(pool, i) ==
    IF i > Len(pool.records) THEN pool
    ELSE IF pool.records[i].payload = Vacant THEN ClearFrom(pool, i + 1)
    ELSE ClearFrom(Free(pool, [index |-> i,
                               generation |-> pool.records[i].generation]), i + 1)

\* Pool::clear: every entry is freed; a handle given out before never
\* resolves again.
Clear(pool) == ClearFrom(pool, 1)

\* Handles of the live entries, in iteration order.
LiveHandles(pool) ==
    {[index |-> i, generation |-> pool.records[i].generation] :
        i \in {j \in 1..Len(pool.records) : pool.records[j].payload # Vacant}}

\* ------------------------------------------------------- model values
SoundIds == 1..NumSounds

EffectNames == {"A", "B"}

\* The change-tracked fields of Sound that sync_to_sound pushes one by one.
Fields == {"buffer", "max_distance", "rolloff_factor", "radius",
           "playback_time", "pitch", "looping", "panning", "gain",
           "spatial_blend", "status"}

\* The change-tracked fields of a model Reverb.
EffectFields == {"decay_time", "gain", "wet", "dry", "fc"}

\* Buffer values: a buffer the source builder accepts and one it rejects.
GoodBuffer == 1
BadBuffer == 2

DefaultVal ==
    [f \in Fields |->
        CASE f = "status" -> "Stopped"
          [] f = "playback_time" -> 0
          [] f = "buffer" -> GoodBuffer
          [] OTHER -> 1]

DefaultEffectVal == [f \in EffectFields |-> 1]

\* The values control code writes to a field in Spec.
FieldValues(f) ==
    CASE f = "status" -> {"Playing"}
      [] f = "gain" -> {2}
      [] OTHER -> {}

WrittenFields == {f \in Fields : FieldValues(f) # {}}

\* The sound Spec drives through every operation.
Driven == {1}

NewSound ==
    [enabled |-> TRUE, native |-> NONE, val |-> DefaultVal, need_sync |-> {},
     effect_name |-> "", position |-> 0]

\* One backend call: its name, the field of a setter, the handle it is given.
Call(op, field, h) == [op |-> op, field |-> field, handle |-> h]

\* The state an operation of SoundContext reads and writes.
World ==
    [effects |-> effects, sounds |-> sounds, sources |-> sources,
     nativeEffects |-> nativeEffects, settings |-> settings, calls |-> {},
     panicked |-> FALSE]

\* What the backend session holds for the settings of the context.
NativeSettings(g, r, m, p) ==
    [master_gain |-> g, renderer |-> r, distance_model |-> m, paused |-> p]

\* SoundContext::default: master gain 1, default renderer and distance model,
\* not paused, over a new backend session.
DefaultSettings ==
    [master_gain |-> 1, renderer |-> "Default",
     distance_model |-> "InverseDistance", paused |-> FALSE,
     native |-> NativeSettings(1, "Default", "InverseDistance", FALSE)]

\* SoundContext::pause
PauseOp(w, pause) ==
    [w EXCEPT !.settings.paused = pause, !.settings.native.paused = pause]

\* SoundContext::set_distance_model
SetDistanceModelOp(w, distance_model) ==
    [w EXCEPT !.settings.distance_model = distance_model,
              !.settings.native.distance_model = distance_model]

\* SoundContext::renderer
Renderer(w) == w.settings.renderer

\* SoundContext::set_renderer
SetRendererOp(w, renderer) ==
    [w EXCEPT !.settings.native.renderer = renderer]

\* SoundContext::set_master_gain
SetMasterGainOp(w, gain) ==
    [w EXCEPT !.settings.master_gain = gain,
              !.settings.native.master_gain = gain]

\* Pool indexing (source_mut, effect_mut, Pool::borrow) with a handle that
\* does not resolve: the thread panics and the operation ends there.
Panic(w) == [w EXCEPT !.panicked = TRUE]

\* ------------------------------------------------ fyrox-sound: EffectInput
NoFilter == [none |-> TRUE]
NoGain == -1

\* EffectInput::direct
Direct(source) ==
    [source |-> source, filter |-> NoFilter, last_distance_gain |-> NoGain]

\* EffectInput::filtered
Filtered(source, filter) ==
    [source |-> source, filter |-> filter, last_distance_gain |-> NoGain]

\* Vec::remove
RemoveAt(seq, i) == SubSeq(seq, 1, i - 1) \o SubSeq(seq, i + 1, Len(seq))

\* Fault variant of SetGain: the gain is stored as given.
SetGainNoClamp(gain) == gain

\* BaseEffect::set_gain
SetGain(gain) == IF gain < 0 THEN 0 ELSE gain

\* iter().position(|input| input.source() == source): 0 when there is none.
InputPosition(inputs, source) ==
    IF \E i \in 1..Len(inputs) : inputs[i].source = source
    THEN CHOOSE i \in 1..Len(inputs) :
            /\ inputs[i].source = source
            /\ \A j \in 1..(i - 1) : inputs[j].source # source
    ELSE 0

\* The sources the inputs of a backend effect reference.
InputSources(eff) == {eff.inputs[i].source : i \in 1..Len(eff.inputs)}

\* ------------------------------------------------ SoundContext operations
\* effects.iter().find(|e| e.name() == name): index of the record, 0 if none.
FindEffect(pool, name) ==
    LET hits == {i \in 1..Len(pool.records) :
                    /\ pool.records[i].payload # Vacant
                    /\ pool.records[i].payload.name = name}
    IN  IF hits = {} THEN 0
        ELSE CHOOSE i \in hits : \A j \in hits : i <= j

\* Fault variant of BuildOk: the builder rejects every source.
BuildNever(snd) == FALSE

\* SoundSourceBuilder::build: Err on a buffer the builder rejects.
BuildOk(snd) == snd.val["buffer"] # BadBuffer

\* The source SoundSourceBuilder builds from the model's fields.
BuiltSource(snd) ==
    [val |-> [f \in Fields |->
                IF f = "spatial_blend" THEN DefaultVal[f] ELSE snd.val[f]],
     position |-> snd.position]

\* A model effect with no backend counterpart and no change flag set.
LoadedEffect(name) ==
    [name |-> name, native |-> NONE, val |-> DefaultEffectVal, need_sync |-> {}]

\* SoundContext::add_effect
AddEffectOp(w, name) ==
    [w EXCEPT !.effects = Spawn(@, LoadedEffect(name))]

\* SoundContext::remove_effect
RemoveEffectOp(w, h) == [w EXCEPT !.effects = Free(@, h)]

\* SoundContext::destroy_sound_sources
DestroySoundSourcesOp(w) == [w EXCEPT !.sources = Clear(@)]

\* Duration::from_secs_f32 panics on a negative number of seconds.
FromSecsOk(v) == v >= 0

\* The backend Reverb update() builds for a model effect.
BuiltReverb(e) ==
    [variant |-> "Reverb",
     val |-> [f \in EffectFields |->
                IF f = "gain" THEN SetGain(e.val[f]) ELSE e.val[f]],
     inputs |-> <<>>, frame_samples |-> <<>>]

\* The fields try_sync_model pushes: those whose change flag is set.
PushedFields(e) == e.need_sync

\* Fault variant of UpdateEffect: a backend effect is built and bound whether
\* or not the model effect is bound already.
UpdateEffectRebinds(w, i) ==
    LET e == w.effects.records[i].payload
        new == SpawnHandle(w.nativeEffects)
    IN  IF e = Vacant THEN w
        ELSE IF ~FromSecsOk(e.val["decay_time"]) THEN Panic(w)
        ELSE [w EXCEPT
                !.nativeEffects = Spawn(@, BuiltReverb(e)),
                !.effects.records[i].payload.native = new,
                !.calls = @ \cup {Call("add_effect", "", new)}]

\* One iteration of the loop of SoundContext::update.
UpdateEffect(w, i) ==
    LET e == w.effects.records[i].payload
        h == e.native
        n == Borrow(w.nativeEffects, h)
        pushed == [f \in EffectFields |->
                     IF f \in PushedFields(e)
                     THEN (IF f = "gain" THEN SetGain(e.val[f]) ELSE e.val[f])
                     ELSE n.val[f]]
        new == SpawnHandle(w.nativeEffects)
    IN  IF e = Vacant THEN w
        ELSE IF IsSome(h)
        THEN IF ~IsValidHandle(w.nativeEffects, h) THEN Panic(w)
             ELSE IF n.variant # "Reverb" THEN w
             ELSE IF "decay_time" \in PushedFields(e)
                     /\ ~FromSecsOk(e.val["decay_time"])
             THEN Panic(w)
             ELSE [w EXCEPT
                     !.nativeEffects.records[h.index].payload.val = pushed,
                     !.effects.records[i].payload.need_sync =
                         @ \ PushedFields(e),
                     !.calls = @ \cup {Call("set_effect", f, h) :
                                         f \in PushedFields(e)}]
        ELSE IF ~FromSecsOk(e.val["decay_time"]) THEN Panic(w)
        ELSE [w EXCEPT
                !.nativeEffects = Spawn(@, BuiltReverb(e)),
                !.effects.records[i].payload.native = new,
                !.calls = @ \cup {Call("add_effect", "", new)}]

RECURSIVE UpdateFrom(_, _)
UpdateFrom(w, i) ==
    IF i > Len(w.effects.records) \/ w.panicked THEN w
    ELSE UpdateFrom(UpdateEffect(w, i), i + 1)

\* SoundContext::update
UpdateOp(w) == UpdateFrom(w, 1)

\* Fault variant of RemoveSound: every source is removed with the one asked.
RemoveEverySound(w, h) ==
    IF IsValidHandle(w.sources, h)
    THEN [w EXCEPT !.sources = Clear(@),
                   !.calls = @ \cup {Call("remove_source", "", h)}]
    ELSE w

\* Fault variant of RemoveSound: the occupant of the slot is removed whatever
\* its generation.
RemoveSoundByIndex(w, h) ==
    IF /\ h.index \in 1..Len(w.sources.records)
       /\ w.sources.records[h.index].payload # Vacant
    THEN [w EXCEPT !.sources =
                       Free(@, [index |-> h.index,
                                generation |-> @.records[h.index].generation]),
                   !.calls = @ \cup {Call("remove_source", "", h)}]
    ELSE w

\* SoundContext::remove_sound
RemoveSound(w, h) ==
    IF IsValidHandle(w.sources, h)
    THEN [w EXCEPT !.sources = Free(@, h),
                   !.calls = @ \cup {Call("remove_source", "", h)}]
    ELSE w

\* SoundContext::set_sound_position
SetSoundPositionOp(w, s) ==
    LET snd == w.sounds[s]
    IN  IF IsValidHandle(w.sources, snd.native)
        THEN [w EXCEPT !.sources.records[snd.native.index].payload.position =
                            snd.position,
                       !.calls = @ \cup {Call("set_position", "", snd.native)}]
        ELSE w

\* Fault variant of SyncWithSoundOp: the handle is resolved by its index
\* alone, whatever its generation.
SyncWithSoundByIndex(w, s) ==
    LET snd == w.sounds[s]
        src == Borrow(w.sources, snd.native)
    IN  IF /\ snd.native.index \in 1..Len(w.sources.records)
           /\ src # Vacant
        THEN [w EXCEPT !.sounds[s].val =
                [@ EXCEPT !["status"] = src.val["status"],
                          !["playback_time"] = src.val["playback_time"]]]
        ELSE w

\* SoundContext::sync_with_sound (set_value_silent leaves the flags alone)
SyncWithSoundOp(w, s) ==
    LET snd == w.sounds[s]
        src == Borrow(w.sources, snd.native)
    IN  IF IsValidHandle(w.sources, snd.native)
        THEN [w EXCEPT !.sounds[s].val =
                [@ EXCEPT !["status"] = src.val["status"],
                          !["playback_time"] = src.val["playback_time"]]]
        ELSE w

\* Fault variant of SyncDisabled: the source is removed, the handle stays bound.
SyncDisabledKeepsHandle(w, s) == RemoveSound(w, w.sounds[s].native)

\* sync_to_sound, the sound is disabled or excluded by the overrides.
SyncDisabled(w, s) ==
    [RemoveSound(w, w.sounds[s].native) EXCEPT !.sounds[s].native = NONE]

\* sync_to_sound, bound handle: the guarded section that pushes every field
\* whose change flag is set (try_sync_model clears the flag and calls the
\* setter), up to drop(state).
SyncPushFields(w, s) ==
    LET snd == w.sounds[s]
        h == snd.native
        src == Borrow(w.sources, h)
        flagged == snd.need_sync \cap Fields
        \* Log::verify(source.set_buffer(v)): a rejected buffer is not stored
        stored(f) == ~(f = "buffer" /\ snd.val[f] = BadBuffer)
    IN  IF ~IsValidHandle(w.sources, h) THEN Panic(w)
        ELSE [w EXCEPT
                !.sources.records[h.index].payload.val =
                    [f \in Fields |->
                        IF f \in flagged /\ stored(f) THEN snd.val[f]
                        ELSE src.val[f]],
                !.sounds[s].need_sync = @ \ Fields,
                !.calls = @ \cup {Call("set", f, h) : f \in flagged}]

\* Fault variant of SyncEffectName: the input the effect already holds for
\* the source is left in place.
SyncEffectNameNoRemove(w, s) ==
    LET snd == w.sounds[s]
        w1 == [w EXCEPT !.sounds[s].need_sync = @ \ {"effect_name"}]
        i == FindEffect(w.effects, snd.effect_name)
        h == w.effects.records[i].payload.native
    IN  IF "effect_name" \notin snd.need_sync THEN w
        ELSE IF i = 0 THEN w1
        ELSE IF ~IsValidHandle(w.nativeEffects, h) THEN Panic(w1)
        ELSE [w1 EXCEPT
                !.nativeEffects.records[h.index].payload.inputs =
                    Append(@, Direct(snd.native)),
                !.calls = @ \cup {Call("add_input", "", h)}]

\* sync_to_sound, bound handle: the effect_name handler, run under a second
\* acquisition of the guard.
SyncEffectName(w, s) ==
    LET snd == w.sounds[s]
        w1 == [w EXCEPT !.sounds[s].need_sync = @ \ {"effect_name"}]
        i == FindEffect(w.effects, snd.effect_name)
        h == w.effects.records[i].payload.native
        inputs == Borrow(w.nativeEffects, h).inputs
        prev == InputPosition(inputs, snd.native)
        kept == IF prev # 0 THEN RemoveAt(inputs, prev) ELSE inputs
    IN  IF "effect_name" \notin snd.need_sync THEN w
        ELSE IF i = 0 THEN w1
        ELSE IF ~IsValidHandle(w.nativeEffects, h) THEN Panic(w1)
        ELSE [w1 EXCEPT
                !.nativeEffects.records[h.index].payload.inputs =
                    Append(kept, Direct(snd.native)),
                !.calls = @ \cup {Call("add_input", "", h)}
                            \cup (IF prev # 0
                                  THEN {Call("remove_input", "", h)} ELSE {})]

\* Fault variant of SyncAddSource: the source is added, the handle it got is
\* not bound.
SyncAddSourceUnbound(w, s) ==
    LET snd == w.sounds[s]
        new == SpawnHandle(w.sources)
    IN  [w EXCEPT !.sources = Spawn(@, BuiltSource(snd)),
                  !.calls = @ \cup {Call("build", "", NONE),
                                    Call("add_source", "", new)}]

\* sync_to_sound, no handle bound: build the source and add it.
SyncAddSource(w, s) ==
    LET snd == w.sounds[s]
        new == SpawnHandle(w.sources)
    IN  [w EXCEPT !.sources = Spawn(@, BuiltSource(snd)),
                  !.sounds[s].native = new,
                  !.calls = @ \cup {Call("build", "", NONE),
                                    Call("add_source", "", new)}]

\* Fault variant of SyncBuildFailed: the failed call clears the change flags.
SyncBuildFailedClearsFlags(w, s) ==
    [w EXCEPT !.sounds[s].need_sync = {},
              !.calls = @ \cup {Call("build", "", NONE)}]

\* sync_to_sound, no handle bound, build() returned Err: the error is logged.
SyncBuildFailed(w, s) == [w EXCEPT !.calls = @ \cup {Call("build", "", NONE)}]

\* Fault variant of SyncAddInput: the new source is wired to every backend
\* effect when the sound names a model effect.
SyncAddInputEverywhere(w, s) ==
    LET snd == w.sounds[s]
        i == FindEffect(w.effects, snd.effect_name)
        h == w.effects.records[i].payload.native
    IN  IF i = 0 THEN w
        ELSE IF ~IsValidHandle(w.nativeEffects, h) THEN Panic(w)
        ELSE [w EXCEPT
                !.nativeEffects.records =
                    [j \in 1..Len(@) |->
                        IF @[j].payload = Vacant THEN @[j]
                        ELSE [@[j] EXCEPT !.payload.inputs =
                                 Append(@, Direct(snd.native))]],
                !.calls = @ \cup {Call("add_input", "", h)}]

\* sync_to_sound, no handle bound: wire the new source to the effect the
\* sound names, under a second acquisition of the guard.
SyncAddInput(w, s) ==
    LET snd == w.sounds[s]
        i == FindEffect(w.effects, snd.effect_name)
        h == w.effects.records[i].payload.native
    IN  IF i = 0 THEN w
        ELSE IF ~IsValidHandle(w.nativeEffects, h) THEN Panic(w)
        ELSE [w EXCEPT
                !.nativeEffects.records[h.index].payload.inputs =
                    Append(@, Direct(snd.native)),
                !.calls = @ \cup {Call("add_input", "", h)}]

\* Option<&FxHashSet<Handle<Node>>>
NoOverrides == [some |-> FALSE, set |-> {}]
Overrides(set) == [some |-> TRUE, set |-> set]
\* The override sets sync_to_sound is given: none, one without any sound, one
\* with every sound.
OverrideChoices == {NoOverrides, Overrides({}), Overrides(SoundIds)}

\* node_overrides.map_or(true, |f| f.contains(&sound_handle))
Included(node_overrides, s) == ~node_overrides.some \/ s \in node_overrides.set

\* SoundContext::sync_to_sound
SyncToSoundOp(w, s, node_overrides) ==
    LET snd == w.sounds[s]
        pushed == SyncPushFields(w, s)
    IN  IF ~snd.enabled \/ ~Included(node_overrides, s) THEN SyncDisabled(w, s)
        ELSE IF IsSome(snd.native)
        THEN IF pushed.panicked THEN pushed ELSE SyncEffectName(pushed, s)
        ELSE IF BuildOk(snd) THEN SyncAddInput(SyncAddSource(w, s), s)
        ELSE SyncBuildFailed(w, s)

\* The branch sync_to_sound takes for sound s.
Branch(w, s, node_overrides) ==
    IF ~w.sounds[s].enabled \/ ~Included(node_overrides, s) THEN "disabled"
    ELSE IF IsSome(w.sounds[s].native) THEN "bound"
    ELSE IF BuildOk(w.sounds[s]) THEN "create"
    ELSE "failed"

\* Whether the input-add step of this sync_to_sound is left out because no
\* model effect has the name the sound gives; a call that does no lookup
\* leaves the answer of the last one.
Skipped(w, s, node_overrides, before) ==
    LET branch == Branch(w, s, node_overrides)
        looked == \/ branch = "create"
                  \/ branch = "bound" /\ "effect_name" \in w.sounds[s].need_sync
    IN  IF branch = "disabled" THEN FALSE
        ELSE IF looked THEN FindEffect(w.effects, w.sounds[s].effect_name) = 0
        ELSE before

\* ------------------------------------------------ fyrox-sound: render
\* Biquad::feed, transposed direct form II.
BiquadFeed(bq, sample) ==
    LET result == sample * bq.b0 + bq.prev1
    IN  [out |-> result,
         state |-> [bq EXCEPT
                      !.prev1 = sample * bq.b1 - result * bq.a1 + bq.prev2,
                      !.prev2 = sample * bq.b2 - result * bq.a2]]

\* InputFilter::feed
FilterFeed(filter, left_sample, right_sample) ==
    LET l == BiquadFeed(filter.left, left_sample)
        r == BiquadFeed(filter.right, right_sample)
    IN  [out |-> <<l.out, r.out>>,
         state |-> [left |-> l.state, right |-> r.state]]

\* SoundSource::calculate_distance_gain: louder when closer to the listener.
DistanceGain(source) == 2 - source.position

\* SoundSource::frame_samples: the samples the source produced this frame.
SourceFrame(source, amount) ==
    [i \in 1..amount |-> <<source.val["gain"], source.val["gain"]>>]

\* Fault variant of Lerpf: the new gain is applied at once.
LerpfEnd(a, b, n, amount) == b * amount

\* math::lerpf(a, b, k) for k = n / amount, after n additions of
\* step = 1 / amount to k, in units of 1/amount:
\* a + (b - a) * k is (a * amount + (b - a) * n) / amount.
Lerpf(a, b, n, amount) == a * amount + (b - a) * n

\* Fault variant of MixSamples: the ramp gain multiplies what is fed to the
\* filter.
RECURSIVE MixSamplesGainFirst(_, _, _, _, _, _, _)
MixSamplesGainFirst(filter, frame, samples, prev, gain, amount, i) ==
    IF i > Len(frame) \/ i > Len(samples) THEN [filter |-> filter, frame |-> frame]
    ELSE LET g == Lerpf(prev, gain, i - 1, amount)
             fed == FilterFeed(filter, samples[i][1] * g, samples[i][2] * g)
             in == IF filter = NoFilter
                   THEN <<samples[i][1] * g, samples[i][2] * g>> ELSE fed.out
             acc == <<frame[i][1] + in[1], frame[i][2] + in[2]>>
         IN  MixSamplesGainFirst(IF filter = NoFilter THEN filter ELSE fed.state,
                                 [frame EXCEPT ![i] = acc],
                                 samples, prev, gain, amount, i + 1)

\* The sample loops of BaseEffect::render for one input, from sample i on.
\* Gains and output are in units of 1/amount.
RECURSIVE MixSamples(_, _, _, _, _, _, _)
MixSamples(filter, frame, samples, prev, gain, amount, i) ==
    IF i > Len(frame) \/ i > Len(samples) THEN [filter |-> filter, frame |-> frame]
    ELSE LET g == Lerpf(prev, gain, i - 1, amount)
             fed == FilterFeed(filter, samples[i][1], samples[i][2])
             in == IF filter = NoFilter THEN samples[i] ELSE fed.out
             acc == <<frame[i][1] + in[1] * g, frame[i][2] + in[2] * g>>
         IN  MixSamples(IF filter = NoFilter THEN filter ELSE fed.state,
                        [frame EXCEPT ![i] = acc],
                        samples, prev, gain, amount, i + 1)

\* Fault variant of PrevDistanceGain: the cached gain is never used.
PrevDistanceGainNow(input, distance_gain) == distance_gain

\* input.last_distance_gain.unwrap_or(distance_gain)
PrevDistanceGain(input, distance_gain) ==
    IF input.last_distance_gain = NoGain THEN distance_gain
    ELSE input.last_distance_gain

\* Fault variant of MixInput: the gain of the effect scales the distance gain.
MixInputScaled(eff, srcs, amount, k) ==
    LET input == eff.inputs[k]
        source == Borrow(srcs, input.source)
        distance_gain == DistanceGain(source) * eff.val["gain"]
        prev_distance_gain == PrevDistanceGain(input, distance_gain)
        mixed == MixSamples(input.filter, eff.frame_samples,
                            SourceFrame(source, amount), prev_distance_gain,
                            distance_gain, amount, 1)
    IN  IF source.val["status"] # "Playing" THEN eff
        ELSE [eff EXCEPT
                !.inputs[k] = [input EXCEPT !.last_distance_gain = distance_gain,
                                            !.filter = mixed.filter],
                !.frame_samples = mixed.frame]

\* Fault variant of MixInput: the distance gain of a source that is not
\* Playing is cached before the input is skipped.
MixInputCachesSkipped(eff, srcs, amount, k) ==
    LET input == eff.inputs[k]
        source == Borrow(srcs, input.source)
        distance_gain == DistanceGain(source)
        prev_distance_gain == PrevDistanceGain(input, distance_gain)
        mixed == MixSamples(input.filter, eff.frame_samples,
                            SourceFrame(source, amount), prev_distance_gain,
                            distance_gain, amount, 1)
    IN  IF source.val["status"] # "Playing"
        THEN [eff EXCEPT !.inputs[k].last_distance_gain = distance_gain]
        ELSE [eff EXCEPT
                !.inputs[k] = [input EXCEPT !.last_distance_gain = distance_gain,
                                            !.filter = mixed.filter],
                !.frame_samples = mixed.frame]

\* One iteration of `for input in self.inputs.iter_mut()` of BaseEffect::render.
\* sources.borrow(input.source) is Pool indexing.
MixInput(eff, srcs, amount, k) ==
    LET input == eff.inputs[k]
        source == Borrow(srcs, input.source)
        distance_gain == DistanceGain(source)
        prev_distance_gain == PrevDistanceGain(input, distance_gain)
        mixed == MixSamples(input.filter, eff.frame_samples,
                            SourceFrame(source, amount), prev_distance_gain,
                            distance_gain, amount, 1)
    IN  IF source.val["status"] # "Playing" THEN eff
        ELSE [eff EXCEPT
                !.inputs[k] = [input EXCEPT !.last_distance_gain = distance_gain,
                                            !.filter = mixed.filter],
                !.frame_samples = mixed.frame]

\* Fault variant of PruneInputs: the buffer is zeroed, every input is kept.
PruneNothing(eff, srcs, amount) ==
    [eff EXCEPT !.frame_samples = [i \in 1..amount |-> <<0, 0>>]]

\* Fault variant of PruneInputs: an input is kept when its slot is occupied,
\* whatever the generation of the occupant.
PruneByIndex(eff, srcs, amount) ==
    [eff EXCEPT
        !.inputs = SelectSeq(@, LAMBDA input :
                        /\ input.source.index \in 1..Len(srcs.records)
                        /\ srcs.records[input.source.index].payload # Vacant),
        !.frame_samples = [i \in 1..amount |-> <<0, 0>>]]

\* Fault variant of PruneInputs: the buffer is resized, what it held is kept.
PruneKeepsFrame(eff, srcs, amount) ==
    [eff EXCEPT
        !.inputs = SelectSeq(@, LAMBDA input : IsValidHandle(srcs, input.source)),
        !.frame_samples = [i \in 1..amount |->
                              IF i <= Len(eff.frame_samples)
                              THEN eff.frame_samples[i] ELSE <<0, 0>>]]

\* The head of BaseEffect::render: drop the inputs whose source is gone and
\* zero the accumulation buffer.
PruneInputs(eff, srcs, amount) ==
    [eff EXCEPT
        !.inputs = SelectSeq(@, LAMBDA input : IsValidHandle(srcs, input.source)),
        !.frame_samples = [i \in 1..amount |-> <<0, 0>>]]

\* What a render call leaves: the effect, and whether the call panicked.
Rendered(eff, failed) == [effect |-> eff, panicked |-> failed]

\* `for input in self.inputs.iter_mut()` of BaseEffect::render, from input k
\* on; sources.borrow panics on a handle that does not resolve.
RECURSIVE MixFrom(_, _, _, _)
MixFrom(eff, srcs, amount, k) ==
    IF k > Len(eff.inputs) THEN Rendered(eff, FALSE)
    ELSE IF ~IsValidHandle(srcs, eff.inputs[k].source) THEN Rendered(eff, TRUE)
    ELSE MixFrom(MixInput(eff, srcs, amount, k), srcs, amount, k + 1)

\* BaseEffect::render
BaseEffectRender(eff, srcs, amount) ==
    MixFrom(PruneInputs(eff, srcs, amount), srcs, amount, 1)

\* Reverb::render: the base effect mixes the inputs, the reverb then
\* processes the mix (the reverb's own processing touches no state modelled).
ReverbRender(eff, srcs, amount) == BaseEffectRender(eff, srcs, amount)

\* Fault variant of StubRender: the Stub renders as its base effect does.
StubRenderAsBase(eff, srcs, amount) == BaseEffectRender(eff, srcs, amount)

\* StubEffect::render
StubRender(eff, srcs, amount) == Rendered(eff, FALSE)

\* Effect::render (static_dispatch)
EffectRender(eff, srcs, amount) ==
    IF eff.variant = "Stub" THEN StubRender(eff, srcs, amount)
    ELSE ReverbRender(eff, srcs, amount)

\* The render thread renders backend effect h.
RenderOp(w, h, amount) ==
    LET eff == Borrow(w.nativeEffects, h)
        out == EffectRender(eff, w.sources, amount)
    IN  [w EXCEPT
           !.nativeEffects.records[h.index].payload = out.effect,
           !.panicked = out.panicked,
           !.calls = @ \cup {Call("render", "", h)}
                       \cup {Call("prune", "", src) :
                                src \in InputSources(eff) \ InputSources(out.effect)}]

\* Samples per rendered frame.
RenderAmounts == {2}

\* ------------------------------------------------------------------ Spec
\* No slot of the pool is past the largest generation explored.
Bounded(pool) ==
    \A i \in 1..Len(pool.records) : pool.records[i].generation <= MaxGen

\* The preceding operation: sync_to_sound of a sound, or any other.
NoSync == [sound |-> 0, branch |-> "", included |-> FALSE]
LastSync(s, branch, included) ==
    [sound |-> s, branch |-> branch, included |-> included]
\* The preceding operation was update().
LastUpdate == [sound |-> 0, branch |-> "update", included |-> FALSE]

\* Nothing was written, skipped, failed or pulled yet.
NoHist ==
    [written |-> {}, skipped |-> FALSE, failed |-> FALSE, pulled |-> FALSE]

\* The new state is the world an operation returns.
Commit(w, l) ==
    /\ Bounded(w.effects) /\ Bounded(w.sources) /\ Bounded(w.nativeEffects)
    /\ effects' = w.effects
    /\ sounds' = w.sounds
    /\ sources' = w.sources
    /\ nativeEffects' = w.nativeEffects
    /\ settings' = w.settings
    /\ calls' = w.calls
    /\ panicked' = w.panicked
    /\ last' = l

\* The control thread is outside sync_to_sound.
CtlIdle == [pc |-> "idle", sound |-> 0]
\* The render thread is between two render passes.
RtIdle == [pc |-> "idle", effect |-> 0, k |-> 0, amount |-> 0]

\* The scene as loaded: the model holds effects "A" and "B", none has a
\* backend counterpart yet, no sound is bound, no change flag is set; the
\* driven sound names no effect or names "A".
Init ==
    /\ effects = Spawn(Spawn(EmptyPool, LoadedEffect("A")), LoadedEffect("B"))
    /\ \E name \in {"", "A"} :
         sounds = [s \in SoundIds |->
                     IF s \in Driven THEN [NewSound EXCEPT !.effect_name = name]
                     ELSE NewSound]
    /\ sources = EmptyPool
    /\ nativeEffects = EmptyPool
    /\ calls = {}
    /\ last = NoSync
    /\ hist = [s \in SoundIds |-> NoHist]
    /\ settings = DefaultSettings
    /\ panicked = FALSE
    /\ edits = 0
    /\ guard = "free"
    /\ ctl = CtlIdle
    /\ rt = RtIdle

\* A write of control code to the model.
Edit == ~panicked /\ edits < MaxEdits /\ edits' = edits + 1

\* Sound::set_gain, set_pitch, play, stop, ...: InheritableVariable::set marks
\* the field as changed.
SetFieldOp(w, s, f, v) ==
    [w EXCEPT !.sounds[s].val[f] = v, !.sounds[s].need_sync = @ \cup {f}]

SetField(s, f, v) ==
    /\ Edit
    /\ Commit(SetFieldOp(World, s, f, v), NoSync)
    /\ hist' = [hist EXCEPT ![s].written = @ \cup {f}]
    /\ UNCHANGED <<guard, ctl, rt>>

\* Sound::set_effect_name
SetEffectNameOp(w, s, name) ==
    [w EXCEPT !.sounds[s].effect_name = name,
              !.sounds[s].need_sync = @ \cup {"effect_name"}]

SetEffectName(s, name) ==
    /\ Edit
    /\ Commit(SetEffectNameOp(World, s, name), NoSync)
    /\ hist' = [hist EXCEPT ![s].written = @ \cup {"effect_name"}]
    /\ UNCHANGED <<guard, ctl, rt>>

\* The node is enabled or disabled.
SetEnabledOp(w, s, b) == [w EXCEPT !.sounds[s].enabled = b]

SetEnabled(s, b) ==
    /\ Edit
    /\ sounds[s].enabled # b
    /\ Commit(SetEnabledOp(World, s, b), NoSync)
    /\ UNCHANGED <<hist, guard, ctl, rt>>

AddEffect(name) ==
    /\ Edit
    /\ Commit(AddEffectOp(World, name), NoSync)
    /\ UNCHANGED <<hist, guard, ctl, rt>>

RemoveEffect(h) ==
    /\ Edit
    /\ Commit(RemoveEffectOp(World, h), NoSync)
    /\ UNCHANGED <<hist, guard, ctl, rt>>

DestroySoundSources ==
    /\ ~panicked
    /\ Commit(DestroySoundSourcesOp(World), NoSync)
    /\ UNCHANGED <<hist, edits, guard, ctl, rt>>

Update ==
    /\ ~panicked
    /\ Commit(UpdateOp(World), LastUpdate)
    /\ UNCHANGED <<hist, edits, guard, ctl, rt>>

SyncToSound(s, node_overrides) ==
    /\ ~panicked
    /\ Commit(SyncToSoundOp(World, s, node_overrides),
              LastSync(s, Branch(World, s, node_overrides),
                       Included(node_overrides, s)))
    /\ hist' = [hist EXCEPT ![s] =
                  [written |-> {},
                   skipped |-> Skipped(World, s, node_overrides, @.skipped),
                   failed |-> @.failed
                                \/ Branch(World, s, node_overrides) = "failed",
                   pulled |-> FALSE]]
    /\ UNCHANGED <<edits, guard, ctl, rt>>

SyncWithSound(s) ==
    /\ ~panicked
    /\ Commit(SyncWithSoundOp(World, s), NoSync)
    /\ hist' = [hist EXCEPT ![s].pulled =
                    @ \/ IsValidHandle(sources, sounds[s].native)]
    /\ UNCHANGED <<edits, guard, ctl, rt>>

SetSoundPosition(s) ==
    /\ ~panicked
    /\ Commit(SetSoundPositionOp(World, s), NoSync)
    /\ UNCHANGED <<hist, edits, guard, ctl, rt>>

Render(h, amount) ==
    /\ ~panicked
    /\ Commit(RenderOp(World, h, amount), NoSync)
    /\ UNCHANGED <<hist, edits, guard, ctl, rt>>

Next ==
    \/ \E s \in Driven, f \in WrittenFields : \E v \in FieldValues(f) :
            SetField(s, f, v)
    \/ \E s \in Driven, name \in EffectNames \cup {""} : SetEffectName(s, name)
    \/ \E s \in Driven, b \in BOOLEAN : SetEnabled(s, b)
    \/ \E name \in EffectNames : AddEffect(name)
    \/ \E h \in LiveHandles(effects) : RemoveEffect(h)
    \/ DestroySoundSources
    \/ Update
    \/ \E s \in Driven, node_overrides \in OverrideChoices :
            SyncToSound(s, node_overrides)
    \/ \E s \in Driven : SyncWithSound(s)
    \/ \E s \in Driven : SetSoundPosition(s)
    \/ \E h \in LiveHandles(nativeEffects), amount \in RenderAmounts :
            Render(h, amount)

Spec == Init /\ [][Next]_vars

\* -------------------------------------------------------------- SpecPair
\* Every sound of the scene is enabled, disabled and synced; nothing else is
\* written.
\* The state after SoundContext::new(), the sounds of the scene not yet synced.
InitPair ==
    /\ effects = EmptyPool
    /\ sounds = [s \in SoundIds |-> NewSound]
    /\ sources = EmptyPool
    /\ nativeEffects = EmptyPool
    /\ calls = {}
    /\ last = NoSync
    /\ hist = [s \in SoundIds |-> NoHist]
    /\ settings = DefaultSettings
    /\ panicked = FALSE
    /\ edits = 0
    /\ guard = "free"
    /\ ctl = CtlIdle
    /\ rt = RtIdle

NextPair ==
    \/ \E s \in SoundIds, b \in BOOLEAN : SetEnabled(s, b)
    \/ DestroySoundSources
    \/ \E s \in SoundIds, node_overrides \in OverrideChoices :
            SyncToSound(s, node_overrides)

SpecPair == InitPair /\ [][NextPair]_vars

\* ------------------------------------------------------------ SpecRender
\* The backend is driven through the fyrox-sound API: sources are added and
\* removed, inputs are added to and removed from effects, effects render.

\* A backend source as the builder's defaults leave it, with the given status.
NewSource(status) ==
    [val |-> [DefaultVal EXCEPT !["status"] = status], position |-> 0]

\* An effect of the given variant around BaseEffect::default().
NewEffect(variant) ==
    [variant |-> variant, val |-> DefaultEffectVal, inputs |-> <<>>,
     frame_samples |-> <<>>]

\* A biquad that delays its input by one sample.
DelayBiquad ==
    [b0 |-> 0, b1 |-> 1, b2 |-> 0, a1 |-> 0, a2 |-> 0, prev1 |-> 0, prev2 |-> 0]

\* InputFilter::new
InputFilterNew(biquad) == [left |-> biquad, right |-> biquad]

\* The inputs control code adds for a source: direct, or through a filter.
InputChoices(src) == {Direct(src), Filtered(src, InputFilterNew(DelayBiquad))}

\* A backend holding one effect, a Stub or a Reverb, and no source.
InitRender ==
    /\ effects = EmptyPool
    /\ sounds = [s \in SoundIds |-> NewSound]
    /\ sources = EmptyPool
    /\ \E variant \in {"Stub", "Reverb"} :
         nativeEffects = Spawn(EmptyPool, NewEffect(variant))
    /\ calls = {}
    /\ last = NoSync
    /\ hist = [s \in SoundIds |-> NoHist]
    /\ settings = DefaultSettings
    /\ panicked = FALSE
    /\ edits = 0
    /\ guard = "free"
    /\ ctl = CtlIdle
    /\ rt = RtIdle

\* A call of the client.
Op == ~panicked /\ edits < MaxOps /\ edits' = edits + 1

\* State::add_source
AddSourceOp(w, status) ==
    [w EXCEPT !.sources = Spawn(@, NewSource(status)),
              !.calls = {Call("add_source", "", SpawnHandle(w.sources))}]

AddSource(status) ==
    /\ Op
    /\ Len(sources.records) < MaxSlots \/ sources.free_stack # <<>>
    /\ Commit(AddSourceOp(World, status), NoSync)
    /\ UNCHANGED <<hist, guard, ctl, rt>>

\* State::remove_source
RemoveSource(h) ==
    /\ Op
    /\ Commit(RemoveSound(World, h), NoSync)
    /\ UNCHANGED <<hist, guard, ctl, rt>>

\* BaseEffect::add_input
AddInputOp(w, h, input) ==
    [w EXCEPT !.nativeEffects.records[h.index].payload.inputs = Append(@, input),
              !.calls = {Call("add_input", "", h)}]

AddInput(h, input) ==
    /\ Op
    /\ Len(Borrow(nativeEffects, h).inputs) < MaxInputs
    /\ Commit(AddInputOp(World, h, input), NoSync)
    /\ UNCHANGED <<hist, guard, ctl, rt>>

\* BaseEffect::remove_input
RemoveInput(h, i) ==
    /\ Op
    /\ Commit([World EXCEPT
                 !.nativeEffects.records[h.index].payload.inputs = RemoveAt(@, i),
                 !.calls = {Call("remove_input", "", h)}], NoSync)
    /\ UNCHANGED <<hist, guard, ctl, rt>>

\* The places a source is moved to.
Positions == {0, 1}

\* SoundSource::set_position
MoveSourceOp(w, h, pos) ==
    [w EXCEPT !.sources.records[h.index].payload.position = pos,
              !.calls = {Call("set_position", "", h)}]

MoveSource(h, pos) ==
    /\ Op
    /\ Borrow(sources, h).position # pos
    /\ Commit(MoveSourceOp(World, h, pos), NoSync)
    /\ UNCHANGED <<hist, guard, ctl, rt>>

NextRender ==
    \/ \E status \in {"Playing", "Stopped"} : AddSource(status)
    \/ \E h \in LiveHandles(sources) : RemoveSource(h)
    \/ \E h \in LiveHandles(nativeEffects), src \in LiveHandles(sources) :
         \E input \in InputChoices(src) : AddInput(h, input)
    \/ \E h \in LiveHandles(nativeEffects) :
         \E i \in 1..Len(Borrow(nativeEffects, h).inputs) : RemoveInput(h, i)
    \/ \E h \in LiveHandles(nativeEffects), amount \in RenderAmounts :
         Render(h, amount)

SpecRender == InitRender /\ [][NextRender]_vars

\* ------------------------------------------------------------- SpecRamp
\* Playing sources feed a Reverb directly and move between renders; the gain
\* of the effect is set.

\* A backend holding one Reverb and no source.
InitRamp ==
    /\ effects = EmptyPool
    /\ sounds = [s \in SoundIds |-> NewSound]
    /\ sources = EmptyPool
    /\ nativeEffects = Spawn(EmptyPool, NewEffect("Reverb"))
    /\ calls = {}
    /\ last = NoSync
    /\ hist = [s \in SoundIds |-> NoHist]
    /\ settings = DefaultSettings
    /\ panicked = FALSE
    /\ edits = 0
    /\ guard = "free"
    /\ ctl = CtlIdle
    /\ rt = RtIdle

\* The gains control code gives to set_gain.
Gains == {-1, 0, 2}

\* set_gain of the BaseEffect of backend effect h.
SetEffectGainOp(w, h, gain) ==
    [w EXCEPT !.nativeEffects.records[h.index].payload.val["gain"] =
                  SetGain(gain),
              !.calls = {Call("set_gain", "", h)}]

SetEffectGain(h, gain) ==
    /\ Op
    /\ Commit(SetEffectGainOp(World, h, gain), NoSync)
    /\ UNCHANGED <<hist, guard, ctl, rt>>

NextRamp ==
    \/ AddSource("Playing")
    \/ \E h \in LiveHandles(nativeEffects), gain \in Gains : SetEffectGain(h, gain)
    \/ \E h \in LiveHandles(sources), pos \in Positions : MoveSource(h, pos)
    \/ \E h \in LiveHandles(nativeEffects), src \in LiveHandles(sources) :
         AddInput(h, Direct(src))
    \/ \E h \in LiveHandles(nativeEffects), amount \in RenderAmounts :
         Render(h, amount)

SpecRamp == InitRamp /\ [][NextRamp]_vars

\* ---------------------------------------------------------------- SpecRT
\* The control thread and the render thread interleave. Every access to the
\* backend state is a section under the state guard; a render pass is one
\* section, made of several steps.

\* Fault variant of StateLock: the section runs without the guard.
NoStateLock == TRUE

\* self.native.state(): the control thread acquires the guard; the section
\* that follows is one step and releases it.
StateLock == guard = "free"

\* The render thread acquires the guard for a render pass.
RenderLock == guard = "free"

\* The scene as loaded: the model holds effect "A", every sound plays and
\* names it, nothing has a backend counterpart yet.
InitRT ==
    /\ effects = Spawn(EmptyPool, LoadedEffect("A"))
    /\ sounds = [s \in SoundIds |->
                    [NewSound EXCEPT !.effect_name = "A",
                                     !.val["status"] = "Playing"]]
    /\ sources = EmptyPool
    /\ nativeEffects = EmptyPool
    /\ calls = {}
    /\ last = NoSync
    /\ hist = [s \in SoundIds |-> NoHist]
    /\ settings = DefaultSettings
    /\ panicked = FALSE
    /\ edits = 0
    /\ guard = "free"
    /\ ctl = CtlIdle
    /\ rt = RtIdle

\* The control thread starts an operation.
CtlOp == ctl.pc = "idle" /\ Op

\* The node is enabled or disabled.
CtlSetEnabled(s, b) ==
    /\ CtlOp
    /\ sounds[s].enabled # b
    /\ Commit([World EXCEPT !.sounds[s].enabled = b], NoSync)
    /\ UNCHANGED <<hist, guard, ctl, rt>>

\* SoundContext::update, one guarded section.
CtlUpdate ==
    /\ CtlOp
    /\ StateLock
    /\ Commit(UpdateOp(World), NoSync)
    /\ UNCHANGED <<hist, guard, ctl, rt>>

\* SoundContext::destroy_sound_sources, one guarded section.
CtlDestroySoundSources ==
    /\ CtlOp
    /\ StateLock
    /\ Commit(DestroySoundSourcesOp(World), NoSync)
    /\ UNCHANGED <<hist, guard, ctl, rt>>

\* sync_to_sound up to the end of its first guarded section.
\* Fault variant of AfterDropState: the control thread keeps the guard.
GuardKept == "control"

\* drop(state): the guard taken for the field pushes is released before the
\* effect_name handler runs.
AfterDropState == "free"

\* The guard taken by self.native.state().add_source(source) is a temporary
\* of that statement and is released at its end.
AfterAddSource == "free"

\* Sound::set_effect_name on the control thread.
CtlSetEffectName(s, name) ==
    /\ CtlOp
    /\ Commit([World EXCEPT !.sounds[s].effect_name = name,
                            !.sounds[s].need_sync = @ \cup {"effect_name"}],
              NoSync)
    /\ UNCHANGED <<hist, guard, ctl, rt>>

CtlSyncToSound(s, node_overrides) ==
    LET branch == Branch(World, s, node_overrides)
        w == CASE branch = "disabled" -> SyncDisabled(World, s)
               [] branch = "bound" -> SyncPushFields(World, s)
               [] branch = "create" -> SyncAddSource(World, s)
               [] OTHER -> SyncBuildFailed(World, s)
    IN  /\ CtlOp
        /\ branch = "failed" \/ StateLock
        /\ Commit(w, NoSync)
        /\ ctl' = CASE branch = "bound" /\ ~w.panicked ->
                         [pc |-> "effect_name", sound |-> s]
                    [] branch = "create" -> [pc |-> "add_input", sound |-> s]
                    [] OTHER -> CtlIdle
        /\ guard' = CASE branch = "bound" /\ ~w.panicked -> AfterDropState
                      [] branch = "create" -> AfterAddSource
                      [] OTHER -> guard
        /\ UNCHANGED <<hist, rt>>

\* sync_to_sound, bound handle, after drop(state): the effect_name handler
\* takes the guard again when it has found the effect.
CtlEffectName ==
    LET s == ctl.sound
        locks == /\ "effect_name" \in sounds[s].need_sync
                 /\ FindEffect(effects, sounds[s].effect_name) # 0
    IN  /\ ~panicked
        /\ ctl.pc = "effect_name"
        /\ locks => StateLock
        /\ Commit(SyncEffectName(World, s), NoSync)
        /\ ctl' = CtlIdle
        /\ UNCHANGED <<hist, edits, guard, rt>>

\* sync_to_sound, no handle bound, after add_source: the new source is wired
\* under a second acquisition of the guard.
CtlAddInput ==
    LET s == ctl.sound
        locks == FindEffect(effects, sounds[s].effect_name) # 0
    IN  /\ ~panicked
        /\ ctl.pc = "add_input"
        /\ locks => StateLock
        /\ Commit(SyncAddInput(World, s), NoSync)
        /\ ctl' = CtlIdle
        /\ UNCHANGED <<hist, edits, guard, rt>>

\* The render thread takes the guard and starts a pass over the effects.
RtBegin(amount) ==
    /\ ~panicked
    /\ rt.pc = "idle"
    /\ RenderLock
    /\ guard' = "render"
    /\ rt' = [pc |-> "effect", effect |-> 1, k |-> 0, amount |-> amount]
    /\ UNCHANGED <<effects, sounds, sources, nativeEffects, calls, last, hist,
                   settings, panicked, edits, ctl>>

\* The slot the pass is at.
RtSlot == nativeEffects.records[rt.effect]

\* The pass reaches a slot: a vacant slot or a Stub effect is passed over;
\* for any other effect the head of BaseEffect::render runs.
RtPrune ==
    /\ ~panicked
    /\ rt.pc = "effect"
    /\ rt.effect <= Len(nativeEffects.records)
    /\ IF RtSlot.payload = Vacant \/ RtSlot.payload.variant = "Stub"
       THEN /\ rt' = [rt EXCEPT !.effect = @ + 1]
            /\ UNCHANGED <<effects, sounds, sources, nativeEffects, calls, last,
                           settings, panicked>>
       ELSE /\ Commit([World EXCEPT !.nativeEffects.records[rt.effect].payload =
                                       PruneInputs(@, sources, rt.amount)], NoSync)
            /\ rt' = [rt EXCEPT !.pc = "mix", !.k = 1]
    /\ UNCHANGED <<hist, edits, guard, ctl>>

\* One iteration of the mixing loop: the source of input k is borrowed.
RtMix ==
    LET eff == RtSlot.payload
    IN  /\ ~panicked
        /\ rt.pc = "mix"
        /\ rt.k <= Len(eff.inputs)
        /\ Commit(IF IsValidHandle(sources, eff.inputs[rt.k].source)
                  THEN [World EXCEPT !.nativeEffects.records[rt.effect].payload =
                                        MixInput(eff, sources, rt.amount, rt.k)]
                  ELSE Panic(World), NoSync)
        /\ rt' = [rt EXCEPT !.k = @ + 1]
        /\ UNCHANGED <<hist, edits, guard, ctl>>

\* The mixing loop of the effect is over.
RtNext ==
    /\ ~panicked
    /\ rt.pc = "mix"
    /\ rt.k > Len(RtSlot.payload.inputs)
    /\ rt' = [rt EXCEPT !.pc = "effect", !.effect = @ + 1, !.k = 0]
    /\ UNCHANGED <<effects, sounds, sources, nativeEffects, calls, last, hist,
                   settings, panicked, edits, guard, ctl>>

\* The pass is over: the guard is released.
RtEnd ==
    /\ ~panicked
    /\ rt.pc = "effect"
    /\ rt.effect > Len(nativeEffects.records)
    /\ guard' = "free"
    /\ rt' = RtIdle
    /\ UNCHANGED <<effects, sounds, sources, nativeEffects, calls, last, hist,
                   settings, panicked, edits, ctl>>

NextRT ==
    \/ \E s \in SoundIds, b \in BOOLEAN : CtlSetEnabled(s, b)
    \/ CtlUpdate
    \/ CtlDestroySoundSources
    \/ \E s \in SoundIds, node_overrides \in OverrideChoices :
            CtlSyncToSound(s, node_overrides)
    \/ \E s \in Driven : CtlSetEffectName(s, "A")
    \/ CtlEffectName
    \/ CtlAddInput
    \/ \E amount \in RenderAmounts : RtBegin(amount)
    \/ RtPrune
    \/ RtMix
    \/ RtNext
    \/ RtEnd

SpecRT == InitRT /\ [][NextRT]_vars

\* ------------------------------------------------------------- SpecBuild
\* One sound whose buffer, spatial blend and status are written, synced while
\* the builder accepts or rejects its fields.

\* The values control code writes to a field in SpecBuild.
BuildValues(f) ==
    CASE f = "buffer" -> {GoodBuffer, BadBuffer}
      [] f = "spatial_blend" -> {2}
      [] f = "status" -> {"Playing"}
      [] OTHER -> {}

\* The scene as loaded: effect "A" in the model, the driven sound names it
\* or names no effect, nothing is bound.
InitBuild ==
    /\ effects = Spawn(EmptyPool, LoadedEffect("A"))
    /\ \E name \in {"", "A"} :
         sounds = [s \in SoundIds |->
                     IF s \in Driven THEN [NewSound EXCEPT !.effect_name = name]
                     ELSE NewSound]
    /\ sources = EmptyPool
    /\ nativeEffects = EmptyPool
    /\ calls = {}
    /\ last = NoSync
    /\ hist = [s \in SoundIds |-> NoHist]
    /\ settings = DefaultSettings
    /\ panicked = FALSE
    /\ edits = 0
    /\ guard = "free"
    /\ ctl = CtlIdle
    /\ rt = RtIdle

NextBuild ==
    \/ \E s \in Driven, f \in Fields : \E v \in BuildValues(f) :
            SetField(s, f, v)
    \/ \E s \in Driven, b \in BOOLEAN : SetEnabled(s, b)
    \/ Update
    \/ \E s \in Driven, node_overrides \in OverrideChoices :
            SyncToSound(s, node_overrides)
    \/ \E s \in Driven : SetSoundPosition(s)

SpecBuild == InitBuild /\ [][NextBuild]_vars

\* ----------------------------------------------------------- SpecEffects
\* Model effects are added, edited and removed; update() reconciles them.

\* The values control code writes to a field of a model Reverb.
EffectValues(f) ==
    CASE f = "gain" -> {-1, 2}
      [] f = "decay_time" -> {-1, 2}
      [] f = "wet" -> {0}
      [] OTHER -> {}

\* The scene as loaded: effect "A" in the model, no backend effect yet.
InitEffects ==
    /\ effects = Spawn(EmptyPool, LoadedEffect("A"))
    /\ sounds = [s \in SoundIds |-> NewSound]
    /\ sources = EmptyPool
    /\ nativeEffects = EmptyPool
    /\ calls = {}
    /\ last = NoSync
    /\ hist = [s \in SoundIds |-> NoHist]
    /\ settings = DefaultSettings
    /\ panicked = FALSE
    /\ edits = 0
    /\ guard = "free"
    /\ ctl = CtlIdle
    /\ rt = RtIdle

\* Reverb::set_gain, set_decay_time, set_wet of the model effect:
\* InheritableVariable::set marks the field as changed.
SetEffectField(h, f, v) ==
    /\ Edit
    /\ Commit([World EXCEPT
                 !.effects.records[h.index].payload.val[f] = v,
                 !.effects.records[h.index].payload.need_sync = @ \cup {f}],
              NoSync)
    /\ UNCHANGED <<hist, guard, ctl, rt>>

NextEffects ==
    \/ \E name \in EffectNames : AddEffect(name)
    \/ \E h \in LiveHandles(effects) : RemoveEffect(h)
    \/ \E h \in LiveHandles(effects), f \in EffectFields :
            \E v \in EffectValues(f) : SetEffectField(h, f, v)
    \/ Update

SpecEffects == InitEffects /\ [][NextEffects]_vars

\* ------------------------------------------------------------- SpecArena
\* Every sound feeds effect "A"; sources and effects are created and removed
\* so that slots of both arenas are reused while handles to them are held.

\* The scene as loaded: effect "A" in the model, every sound names it.
InitArena ==
    /\ effects = Spawn(EmptyPool, LoadedEffect("A"))
    /\ sounds = [s \in SoundIds |-> [NewSound EXCEPT !.effect_name = "A"]]
    /\ sources = EmptyPool
    /\ nativeEffects = EmptyPool
    /\ calls = {}
    /\ last = NoSync
    /\ hist = [s \in SoundIds |-> NoHist]
    /\ settings = DefaultSettings
    /\ panicked = FALSE
    /\ edits = 0
    /\ guard = "free"
    /\ ctl = CtlIdle
    /\ rt = RtIdle

\* One counted call of an operation of the context that returns world w.
Tick(w, l) ==
    /\ ~panicked /\ edits < MaxTicks /\ edits' = edits + 1
    /\ Commit(w, l)
    /\ UNCHANGED <<hist, guard, ctl, rt>>

TickAddEffect(name) == Tick(AddEffectOp(World, name), NoSync)

TickRemoveEffect(h) == Tick(RemoveEffectOp(World, h), NoSync)

TickUpdate == Tick(UpdateOp(World), LastUpdate)

TickSyncToSound(s, node_overrides) ==
    Tick(SyncToSoundOp(World, s, node_overrides),
         LastSync(s, Branch(World, s, node_overrides),
                  Included(node_overrides, s)))

TickDestroySoundSources == Tick(DestroySoundSourcesOp(World), NoSync)

TickRender(h, amount) == Tick(RenderOp(World, h, amount), NoSync)

NextArena ==
    \/ \E name \in EffectNames : TickAddEffect(name)
    \/ \E h \in LiveHandles(effects) : TickRemoveEffect(h)
    \/ TickUpdate
    \/ \E s \in SoundIds, node_overrides \in OverrideChoices :
            TickSyncToSound(s, node_overrides)
    \/ TickDestroySoundSources
    \/ \E h \in LiveHandles(nativeEffects), amount \in RenderAmounts :
            TickRender(h, amount)

SpecArena == InitArena /\ [][NextArena]_vars

\* --------------------------------------------------------------- SpecMix
\* Sources play, pause and move, feed a Reverb directly or through a filter,
\* frames of different lengths are rendered.

\* Samples per rendered frame in SpecMix.
MixAmounts == {1, 2}

\* SoundSource::play, pause
SetStatusOp(w, h, status) ==
    [w EXCEPT !.sources.records[h.index].payload.val["status"] = status,
              !.calls = {Call("set_status", "", h)}]

\* No frame was rendered yet.
NoFrame ==
    [sound |-> 0, branch |-> "", included |-> FALSE, gains |-> <<>>,
     played |-> <<>>]

\* A backend holding one Reverb and one Playing source, as add_effect and
\* add_source leave them.
InitMix ==
    /\ effects = EmptyPool
    /\ sounds = [s \in SoundIds |-> NewSound]
    /\ sources = Spawn(EmptyPool, NewSource("Playing"))
    /\ nativeEffects = Spawn(EmptyPool, NewEffect("Reverb"))
    /\ calls = {}
    /\ last = NoFrame
    /\ hist = [s \in SoundIds |-> NoHist]
    /\ settings = DefaultSettings
    /\ panicked = FALSE
    /\ edits = 0
    /\ guard = "free"
    /\ ctl = CtlIdle
    /\ rt = RtIdle

\* The frame a render of eff makes, after the frame before: for each input
\* the render keeps, in the order of the input list, the distance gain of its
\* source during the frame (gains), and the distance gain of its source during
\* the latest frame, this one included, in which the source was Playing
\* (played; NoGain when there was none).
LastFrame(before, eff, srcs) ==
    LET seen == [k \in 1..Len(eff.inputs) |->
                   LET input == eff.inputs[k]
                   IN  [source |-> input.source,
                        played |->
                          IF /\ IsValidHandle(srcs, input.source)
                             /\ Borrow(srcs, input.source).val["status"] = "Playing"
                          THEN DistanceGain(Borrow(srcs, input.source))
                          ELSE IF k <= Len(before.played) THEN before.played[k]
                          ELSE NoGain]]
        kept == SelectSeq(seen, LAMBDA e : IsValidHandle(srcs, e.source))
    IN  [sound |-> 0, branch |-> "render", included |-> FALSE,
         gains |-> [k \in 1..Len(kept) |->
                      DistanceGain(Borrow(srcs, kept[k].source))],
         played |-> [k \in 1..Len(kept) |-> kept[k].played]]

\* A call of the client in SpecMix; the preceding frame stays the same.
MixOp(w) ==
    /\ ~panicked
    /\ edits < MaxMixOps
    /\ edits' = edits + 1
    /\ Commit(w, last)
    /\ UNCHANGED <<hist, guard, ctl, rt>>

\* The mixer renders backend effect h.
MixRender(h, amount) ==
    /\ ~panicked
    /\ Commit(RenderOp(World, h, amount),
              LastFrame(last, Borrow(nativeEffects, h), sources))
    /\ UNCHANGED <<hist, edits, guard, ctl, rt>>

MixAddSource(status) ==
    /\ Len(sources.records) < MaxSlots \/ sources.free_stack # <<>>
    /\ MixOp(AddSourceOp(World, status))

MixRemoveSource(h) == MixOp(RemoveSound(World, h))

MixSetStatus(h, status) ==
    /\ Borrow(sources, h).val["status"] # status
    /\ MixOp(SetStatusOp(World, h, status))

MixMoveSource(h, pos) ==
    /\ Borrow(sources, h).position # pos
    /\ MixOp(MoveSourceOp(World, h, pos))

MixAddInput(h, input) ==
    /\ Len(Borrow(nativeEffects, h).inputs) < MaxInputs
    /\ MixOp(AddInputOp(World, h, input))

NextMix ==
    \/ \E status \in {"Playing", "Stopped"} : MixAddSource(status)
    \/ \E h \in LiveHandles(sources) : MixRemoveSource(h)
    \/ \E h \in LiveHandles(sources), status \in {"Playing", "Paused"} :
         MixSetStatus(h, status)
    \/ \E h \in LiveHandles(sources), pos \in Positions : MixMoveSource(h, pos)
    \/ \E h \in LiveHandles(nativeEffects), src \in LiveHandles(sources) :
         \E input \in InputChoices(src) : MixAddInput(h, input)
    \/ \E h \in LiveHandles(nativeEffects), amount \in MixAmounts :
         MixRender(h, amount)

SpecMix == InitMix /\ [][NextMix]_vars

\* ------------------------------------------------------------- SpecStub
\* A Stub effect is given inputs, sources come and go, the Stub renders.

\* A backend holding one Stub and one Playing source.
InitStub ==
    /\ effects = EmptyPool
    /\ sounds = [s \in SoundIds |-> NewSound]
    /\ sources = Spawn(EmptyPool, NewSource("Playing"))
    /\ nativeEffects = Spawn(EmptyPool, NewEffect("Stub"))
    /\ calls = {}
    /\ last = NoSync
    /\ hist = [s \in SoundIds |-> NoHist]
    /\ settings = DefaultSettings
    /\ panicked = FALSE
    /\ edits = 0
    /\ guard = "free"
    /\ ctl = CtlIdle
    /\ rt = RtIdle

NextStub ==
    \/ \E status \in {"Playing", "Stopped"} : MixAddSource(status)
    \/ \E h \in LiveHandles(sources) : MixRemoveSource(h)
    \/ \E h \in LiveHandles(nativeEffects), src \in LiveHandles(sources) :
         \E input \in InputChoices(src) : MixAddInput(h, input)
    \/ \E h \in LiveHandles(nativeEffects), amount \in RenderAmounts :
         Render(h, amount)

SpecStub == InitStub /\ [][NextStub]_vars

\* ----------------------------------------------------------- SpecOwners
\* The sounds of the scene are synced, enabled and disabled, included in and
\* left out of the override set, and given buffers the builder accepts or
\* rejects; nothing but sync_to_sound touches the backend.

\* Sound::set_buffer
TickSetBuffer(s, v) ==
    /\ sounds[s].val["buffer"] # v
    /\ Tick(SetFieldOp(World, s, "buffer", v), NoSync)

TickSetEnabled(s, b) ==
    /\ sounds[s].enabled # b
    /\ Tick(SetEnabledOp(World, s, b), NoSync)

NextOwners ==
    \/ \E s \in SoundIds, v \in {GoodBuffer, BadBuffer} : TickSetBuffer(s, v)
    \/ \E s \in SoundIds, b \in BOOLEAN : TickSetEnabled(s, b)
    \/ \E s \in SoundIds, node_overrides \in OverrideChoices :
            TickSyncToSound(s, node_overrides)

SpecOwners == InitPair /\ [][NextOwners]_vars

\* ------------------------------------------------------------ SpecTicks
\* Control code writes to the sounds and destroys the sound sources, then lets
\* control ticks pass with no write between them.

\* sync_to_sound for every sound from s on, in scene order, with no override
\* set; a panic ends the tick.
RECURSIVE SyncAllFrom(_, _)
SyncAllFrom(w, s) ==
    IF s > NumSounds \/ w.panicked THEN w
    ELSE SyncAllFrom(SyncToSoundOp(w, s, NoOverrides), s + 1)

\* One control tick: update(), then sync_to_sound for every sound.
ControlTickOp(w) == SyncAllFrom(UpdateOp(w), 1)

\* The preceding operation was the n-th of n consecutive control ticks.
LastTick(n) == [sound |-> 0, branch |-> "tick", included |-> FALSE, n |-> n]

\* The number of control ticks that have passed since the last write.
TicksPassed == IF last.branch = "tick" THEN last.n ELSE 0

ControlTick ==
    /\ ~panicked
    /\ TicksPassed < SettleTicks
    /\ Commit(ControlTickOp(World), LastTick(TicksPassed + 1))
    /\ UNCHANGED <<hist, edits, guard, ctl, rt>>

\* Sound::set_gain
TickSetGain(s, v) ==
    /\ sounds[s].val["gain"] # v
    /\ Tick(SetFieldOp(World, s, "gain", v), NoSync)

NextTicks ==
    \/ \E s \in SoundIds, v \in {GoodBuffer, BadBuffer} : TickSetBuffer(s, v)
    \/ \E s \in SoundIds, v \in {1, 2} : TickSetGain(s, v)
    \/ \E s \in SoundIds, b \in BOOLEAN : TickSetEnabled(s, b)
    \/ TickDestroySoundSources
    \/ ControlTick

SpecTicks == InitArena /\ [][NextTicks]_vars

\* ----------------------------------------------------------- SpecWiring
\* The sounds are created and their effect_name is changed among the effects
\* of the scene, back and forth, between calls of update and sync_to_sound.

TickSetEffectName(s, name) ==
    /\ sounds[s].effect_name # name
    /\ Tick(SetEffectNameOp(World, s, name), NoSync)

NextWiring ==
    \/ \E s \in SoundIds, name \in EffectNames : TickSetEffectName(s, name)
    \/ TickUpdate
    \/ \E s \in SoundIds, node_overrides \in OverrideChoices :
            TickSyncToSound(s, node_overrides)

SpecWiring == Init /\ [][NextWiring]_vars

\* ------------------------------------------------------------- SpecIdle
\* Sounds are toggled and synced while their sources may be destroyed behind
\* their back, so that sync_to_sound meets unbound and stale handles.

NextIdle ==
    \/ \E s \in SoundIds, b \in BOOLEAN : TickSetEnabled(s, b)
    \/ \E s \in SoundIds, node_overrides \in OverrideChoices :
            TickSyncToSound(s, node_overrides)
    \/ TickDestroySoundSources

SpecIdle == InitPair /\ [][NextIdle]_vars

\* ---------------------------------------------------------- SpecHandles
\* Sounds are created, their sources destroyed behind their back and the
\* freed slots given to other sounds, while the scene pulls status and
\* playback time from the backend and pushes positions to it.

\* The preceding operation was sync_with_sound or set_sound_position.
LastPull(s) == [sound |-> s, branch |-> "pull", included |-> FALSE]
LastPosition(s) == [sound |-> s, branch |-> "position", included |-> FALSE]

TickSetStatus(s, v) ==
    /\ sounds[s].val["status"] # v
    /\ Tick(SetFieldOp(World, s, "status", v), NoSync)

\* The node of the sound is moved: its global position changes.
TickMoveSound(s, pos) ==
    /\ sounds[s].position # pos
    /\ Tick([World EXCEPT !.sounds[s].position = pos], NoSync)

TickSyncWithSound(s) == Tick(SyncWithSoundOp(World, s), LastPull(s))

TickSetSoundPosition(s) == Tick(SetSoundPositionOp(World, s), LastPosition(s))

NextHandles ==
    \/ \E s \in SoundIds, v \in FieldValues("status") : TickSetStatus(s, v)
    \/ \E s \in SoundIds, pos \in Positions : TickMoveSound(s, pos)
    \/ \E s \in SoundIds : TickSyncToSound(s, NoOverrides)
    \/ TickDestroySoundSources
    \/ \E s \in SoundIds : TickSyncWithSound(s)
    \/ \E s \in SoundIds : TickSetSoundPosition(s)

SpecHandles == InitPair /\ [][NextHandles]_vars

\* ---------------------------------------------------------- SpecSettings
\* Control code changes the settings of the context.

Renderers == {"Default", "HrtfRenderer"}
DistanceModels ==
    {"None", "InverseDistance", "LinearDistance", "ExponentDistance"}
MasterGains == {0, 1, 2}

\* The state after SoundContext::new().
InitSettings ==
    /\ effects = EmptyPool
    /\ sounds = [s \in SoundIds |-> NewSound]
    /\ sources = EmptyPool
    /\ nativeEffects = EmptyPool
    /\ calls = {}
    /\ last = NoSync
    /\ hist = [s \in SoundIds |-> NoHist]
    /\ settings = DefaultSettings
    /\ panicked = FALSE
    /\ edits = 0
    /\ guard = "free"
    /\ ctl = CtlIdle
    /\ rt = RtIdle

Pause(pause) ==
    /\ Op
    /\ Commit(PauseOp(World, pause), NoSync)
    /\ UNCHANGED <<hist, guard, ctl, rt>>

SetDistanceModel(distance_model) ==
    /\ Op
    /\ Commit(SetDistanceModelOp(World, distance_model), NoSync)
    /\ UNCHANGED <<hist, guard, ctl, rt>>

SetRenderer(renderer) ==
    /\ Op
    /\ Commit(SetRendererOp(World, renderer), NoSync)
    /\ UNCHANGED <<hist, guard, ctl, rt>>

SetMasterGain(gain) ==
    /\ Op
    /\ Commit(SetMasterGainOp(World, gain), NoSync)
    /\ UNCHANGED <<hist, guard, ctl, rt>>

NextSettings ==
    \/ \E pause \in BOOLEAN : Pause(pause)
    \/ \E distance_model \in DistanceModels : SetDistanceModel(distance_model)
    \/ \E renderer \in Renderers : SetRenderer(renderer)
    \/ \E gain \in MasterGains : SetMasterGain(gain)

SpecSettings == InitSettings /\ [][NextSettings]_vars

\* ---------------------------------------------------------------- claims
\* Number of inputs of a backend effect that reference source src.
InputCount(eff, src) ==
    Cardinality({i \in 1..Len(eff.inputs) : eff.inputs[i].source = src})

\* The step is a sync_to_sound of sound s that took the given branch and
\* returned.
Synced(s, branch) ==
    last'.sound = s /\ last'.branch = branch /\ ~panicked'

\* Model effect i has a backend counterpart.
Materialized(i) ==
    /\ i \in 1..Len(effects.records)
    /\ effects.records[i].payload # Vacant
    /\ IsValidHandle(nativeEffects, effects.records[i].payload.native)

\* The backend counterpart of model effect i, before and after the step.
NativeOf(i) == Borrow(nativeEffects, effects.records[i].payload.native)
NativeOfAfter(i) == Borrow(nativeEffects', effects.records[i].payload.native)

\* C1 Effect rewiring: when a bound sound feeds backend effect A, its
\* effect_name is changed to the name of another materialized effect B and
\* sync_to_sound runs, then A holds no input of the sound's source and B
\* holds one.
C1_EffectRewiring ==
    [][\A s \in SoundIds : \A a, b \in 1..Len(effects.records) :
        (/\ Synced(s, "bound")
         /\ "effect_name" \in hist[s].written
         /\ Materialized(a) /\ Materialized(b) /\ a # b
         /\ b = FindEffect(effects, sounds[s].effect_name)
         /\ effects.records[a].payload.name # sounds[s].effect_name
         /\ InputCount(NativeOf(a), sounds[s].native) > 0)
        => /\ InputCount(NativeOfAfter(a), sounds[s].native) = 0
           /\ InputCount(NativeOfAfter(b), sounds[s].native) = 1]_vars

\* C2 Idempotent reconciliation: a sync_to_sound that directly follows a
\* sync_to_sound of the same sound with the same arguments invokes no
\* setter, no add_input and no remove_input.
C2_IdempotentReconciliation ==
    [][\A s \in SoundIds :
        (/\ last.sound = s /\ last'.sound = s
         /\ last'.included = last.included
         /\ ~panicked')
        => {c \in calls' : c.op \in {"set", "add_input", "remove_input"}} = {}]_vars

\* C3 Lazy creation then field update: the first sync_to_sound of an enabled,
\* unbound, valid sound adds exactly one source, with the model's gain, and
\* binds it; a sync_to_sound after a write of gain alone invokes only the
\* gain setter on that source, adds no source and keeps the handle.
C3_LazyCreationThenFieldUpdate ==
    [][\A s \in SoundIds :
        /\ Synced(s, "create")
           => /\ LiveHandles(sources') = LiveHandles(sources) \cup {sounds'[s].native}
              /\ sounds'[s].native \notin LiveHandles(sources)
              /\ Borrow(sources', sounds'[s].native).val["gain"] = sounds[s].val["gain"]
        /\ (Synced(s, "bound") /\ hist[s].written = {"gain"})
           => /\ calls' = {Call("set", "gain", sounds[s].native)}
              /\ sounds'[s].native = sounds[s].native
              /\ LiveHandles(sources') = LiveHandles(sources)]_vars

\* C5 No operation panics on reachable input: sync_to_sound and update give
\* the panicking accessors only handles that resolve.
C5_NoPanic == ~panicked

\* The effect step of sync_to_sound runs for sound s in this step and the
\* effect the sound names has no backend counterpart.
NamesUnmaterialized(s) ==
    LET i == FindEffect(effects, sounds[s].effect_name)
    IN  /\ last'.sound = s
        /\ \/ last'.branch = "create"
           \/ last'.branch = "bound" /\ "effect_name" \in sounds[s].need_sync
        /\ i # 0
        /\ ~IsSome(effects.records[i].payload.native)

\* C6 Unmaterialized effect is skipped: when the sound names a model effect
\* that has no backend counterpart, sync_to_sound does not fail and leaves
\* every backend effect's inputs as they were.
C6_UnmaterializedSkipped ==
    [][\A s \in SoundIds :
        NamesUnmaterialized(s)
        => /\ ~panicked'
           /\ \A h \in LiveHandles(nativeEffects) :
                Borrow(nativeEffects', h).inputs = Borrow(nativeEffects, h).inputs]_vars

\* C7 Effect wiring is retried: when the input-add step was left out because
\* no effect had the name the sound gives, and an effect of that name now
\* exists and is materialized, a sync_to_sound of the bound sound, with no
\* model write since its last sync, adds an input of the sound's source to
\* that effect.
C7_WiringRetried ==
    [][\A s \in SoundIds :
        LET i == FindEffect(effects, sounds[s].effect_name)
        IN  (/\ Synced(s, "bound")
             /\ hist[s].skipped
             /\ hist[s].written = {}
             /\ Materialized(i)
             /\ InputCount(NativeOf(i), sounds[s].native) = 0)
            => InputCount(NativeOfAfter(i), sounds[s].native) > 0]_vars

\* C8 Empty effect name means dry: after the effect_name of a bound sound
\* that feeds some effect is changed to "" and sync_to_sound runs, no backend
\* effect holds an input of the sound's source.
C8_EmptyNameMeansDry ==
    [][\A s \in SoundIds :
        (/\ Synced(s, "bound")
         /\ "effect_name" \in hist[s].written
         /\ sounds[s].effect_name = ""
         /\ \E h \in LiveHandles(nativeEffects) :
                InputCount(Borrow(nativeEffects, h), sounds[s].native) > 0)
        => \A h \in LiveHandles(nativeEffects') :
                InputCount(Borrow(nativeEffects', h), sounds[s].native) = 0]_vars

\* The step is a sync_to_sound of bound sound s that took the branch for a
\* disabled or excluded sound.
DisabledSync(s) ==
    /\ last'.sound = s /\ last'.branch = "disabled"
    /\ IsValidHandle(sources, sounds[s].native)

\* C4 Disable removes backend state: a sync_to_sound of a bound sound that is
\* disabled, or left out of the override set, unbinds the handle, removes the
\* source it was bound to and no other, and makes no other backend call.
C4_DisableRemovesBackendState ==
    [][\A s \in SoundIds :
        DisabledSync(s)
        => /\ sounds'[s].native = NONE
           /\ ~IsValidHandle(sources', sounds[s].native)
           /\ LiveHandles(sources') = LiveHandles(sources) \ {sounds[s].native}
           /\ calls' = {Call("remove_source", "", sounds[s].native)}
           /\ ~panicked']_vars

\* An enabled sound left out of the override set was just unbound and its
\* source removed, while the source of another sound is still there.
C4_Witness ==
    \E s, o \in SoundIds :
        /\ last = LastSync(s, "disabled", FALSE)
        /\ sounds[s].enabled /\ sounds[s].native = NONE
        /\ \E c \in calls : c.op = "remove_source"
        /\ o # s /\ IsValidHandle(sources, sounds[o].native)

\* The source handles of an effect's inputs, in order.
SourceSeq(eff) == [i \in 1..Len(eff.inputs) |-> eff.inputs[i].source]

\* The step is a render of backend effect h that drops exactly the inputs
\* whose source is gone, keeps the others in order, and does not fail.
RenderPrunes(h) ==
    /\ ~panicked'
    /\ SourceSeq(Borrow(nativeEffects', h)) =
         SelectSeq(SourceSeq(Borrow(nativeEffects, h)),
                   LAMBDA src : IsValidHandle(sources, src))

\* C9 as stated, for an effect of any variant: render drops the dangling
\* inputs, keeps the others in order, and does not fail.
C9_PruningAnyVariant ==
    [][\A h \in LiveHandles(nativeEffects) :
        Call("render", "", h) \in calls' => RenderPrunes(h)]_vars

\* C9 Dangling-input pruning, for an effect whose variant is not Stub: render
\* drops every input whose source was freed, the list shrinking by one per
\* dangling input, keeps every other input in its original relative order,
\* and does not fail.
C9_DanglingInputPruning ==
    [][\A h \in LiveHandles(nativeEffects) :
        (/\ Call("render", "", h) \in calls'
         /\ Borrow(nativeEffects, h).variant # "Stub")
        => RenderPrunes(h)]_vars

\* A Reverb was just rendered: a dangling input was dropped, an input whose
\* source is live was kept.
C9_Witness ==
    \E h \in LiveHandles(nativeEffects) :
        /\ Call("render", "", h) \in calls
        /\ Borrow(nativeEffects, h).variant = "Reverb"
        /\ \E c \in calls : c.op = "prune"
        /\ Len(Borrow(nativeEffects, h).inputs) > 0

\* The inputs of the effect whose mixing loop the render pass is in.
MixedInputs == nativeEffects.records[rt.effect].payload.inputs

\* C10 No source is freed during a render pass: the source table does not
\* change while the render pass holds the guard, and inside the mixing loop
\* every input that passed the validity check still resolves.
C10_NoSourceFreedDuringRender ==
    /\ [][guard = "render" => sources' = sources]_vars
    /\ [](rt.pc = "mix" =>
            /\ guard = "render"
            /\ \A i \in 1..Len(MixedInputs) :
                 IsValidHandle(sources, MixedInputs[i].source))

\* The render pass has mixed the input of a sound's source while the control
\* thread has that sound disabled and its source not yet removed.
C10_Witness ==
    /\ rt.pc = "mix" /\ rt.k > 1
    /\ \E s \in SoundIds :
         /\ ~sounds[s].enabled
         /\ IsValidHandle(sources, sounds[s].native)
         /\ \E i \in 1..(rt.k - 1) : MixedInputs[i].source = sounds[s].native

\* C11 No self-deadlock on the guard: the control thread never holds the
\* guard when it asks for it; between the two guarded sections of
\* sync_to_sound the guard is released, so the second section can run as soon
\* as the render thread does not hold the guard.
C11_NoSelfDeadlock ==
    /\ guard # "control"
    /\ (ctl.pc = "effect_name" /\ guard # "render" /\ ~panicked)
          => ENABLED CtlEffectName
    /\ (ctl.pc = "add_input" /\ guard # "render" /\ ~panicked)
          => ENABLED CtlAddInput

\* The control thread is between the field pushes and the effect_name
\* handler of a sound whose effect_name changed and names a materialized
\* effect: the handler will take the guard, which is free.
C11_Witness ==
    /\ ctl.pc = "effect_name"
    /\ guard = "free"
    /\ "effect_name" \in sounds[ctl.sound].need_sync
    /\ Materialized(FindEffect(effects, sounds[ctl.sound].effect_name))

\* C12 Source creation is one guarded operation: while a render pass runs,
\* every sound whose source is live and whose named effect is materialized
\* has an input in that effect.
C12_CreationIsOneSection ==
    rt.pc # "idle" =>
        \A s \in SoundIds :
            LET i == FindEffect(effects, sounds[s].effect_name)
            IN  (IsValidHandle(sources, sounds[s].native) /\ Materialized(i))
                => InputCount(NativeOf(i), sounds[s].native) > 0

\* C13 Construction failure leaves no trace: a sync_to_sound whose build
\* fails leaves the handle unbound, the sound's fields and change flags, the
\* source table and every effect as they were, makes one construction
\* attempt and no other backend call, and returns normally.
C13_FailureLeavesNoTrace ==
    [][\A s \in SoundIds :
        last'.sound = s /\ last'.branch = "failed"
        => /\ ~panicked'
           /\ sounds' = sounds
           /\ ~IsSome(sounds'[s].native)
           /\ sources' = sources
           /\ nativeEffects' = nativeEffects
           /\ effects' = effects
           /\ calls' = {Call("build", "", NONE)}]_vars

\* A construction just failed for a sound with pending change flags while a
\* backend effect exists.
C13_Witness ==
    /\ last.sound \in SoundIds
    /\ last.branch = "failed"
    /\ sounds[last.sound].need_sync # {}
    /\ LiveHandles(nativeEffects) # {}

\* C14 Recovery after construction failure: every sync_to_sound of an
\* enabled, included, unbound sound attempts construction, and when the
\* model's fields are a valid combination that call binds a source that
\* resolves in the backend, also after earlier failures.
C14_RecoveryAfterFailure ==
    [][\A s \in SoundIds :
        (/\ last'.sound = s /\ last'.included
         /\ sounds[s].enabled /\ ~IsSome(sounds[s].native))
        => /\ Call("build", "", NONE) \in calls'
           /\ sounds[s].val["buffer"] # BadBuffer
                => IsValidHandle(sources', sounds'[s].native)]_vars

\* A sound whose construction failed earlier was just bound.
C14_Witness ==
    /\ last.sound \in SoundIds
    /\ last.branch = "create"
    /\ hist[last.sound].failed
    /\ IsValidHandle(sources, sounds[last.sound].native)

\* C15 One-shot creation mirrors the whole model: after the sync_to_sound
\* that creates the source, every field of the source, spatial blend
\* included, and its position equal the model's.
C15_CreationMirrorsModel ==
    [][\A s \in SoundIds :
        Synced(s, "create")
        => LET src == Borrow(sources', sounds'[s].native)
           IN  /\ \A f \in Fields : src.val[f] = sounds[s].val[f]
               /\ src.position = sounds[s].position]_vars

\* C16 Reverse sync is silent: a sync_to_sound of a bound sound that follows
\* a sync_with_sound, with no model write since the sound's previous
\* sync_to_sound, invokes neither the status nor the playback-time setter.
C16_ReverseSyncIsSilent ==
    [][\A s \in SoundIds :
        (Synced(s, "bound") /\ hist[s].pulled /\ hist[s].written = {})
        => \A c \in calls' :
              ~(c.op = "set" /\ c.field \in {"status", "playback_time"})]_vars

\* The model effects that are live before the step.
LiveEffects ==
    {i \in 1..Len(effects.records) : effects.records[i].payload # Vacant}

\* The step is an update().
Updated == last'.branch = "update"

\* The backend effect bound to model effect i after the step.
Created(i) == Borrow(nativeEffects', effects'.records[i].payload.native)

\* C17 Lazy effect creation: update() returns and has added, for every model
\* effect with no bound handle, exactly one backend effect whose gain, wet,
\* dry, decay time and cutoff equal the model's, and recorded its handle;
\* afterwards every model effect's handle resolves in the backend.
C17_LazyEffectCreation ==
    [][Updated =>
        /\ ~panicked'
        /\ Cardinality(LiveHandles(nativeEffects'))
             = Cardinality(LiveHandles(nativeEffects))
                 + Cardinality({i \in LiveEffects :
                                  ~IsSome(effects.records[i].payload.native)})
        /\ \A i \in LiveEffects :
             LET e == effects.records[i].payload
                 h == effects'.records[i].payload.native
             IN  /\ IsValidHandle(nativeEffects', h)
                 /\ IsSome(e.native) => h = e.native
                 /\ ~IsSome(e.native)
                      => /\ h \notin LiveHandles(nativeEffects)
                         /\ \A j \in LiveEffects \ {i} :
                               effects'.records[j].payload.native # h
                         /\ \A f \in EffectFields :
                               Created(i).val[f] = e.val[f]]_vars

\* C18 Field-granular effect diff: for a model effect with a bound handle
\* update() invokes a backend setter for exactly the fields whose change flag
\* is set, clears those flags, and leaves the backend value of every other
\* field unchanged.
C18_FieldGranularEffectDiff ==
    [][Updated =>
        \A i \in LiveEffects :
            LET e == effects.records[i].payload
                h == e.native
            IN  IsSome(h) =>
                  /\ {c \in calls' : c.handle = h} =
                        {Call("set_effect", f, h) : f \in e.need_sync}
                  /\ effects'.records[i].payload.need_sync = {}
                  /\ \A f \in EffectFields \ e.need_sync :
                        NativeOfAfter(i).val[f] = NativeOf(i).val[f]]_vars

\* C19 Backend effect destroyed with its model effect: after an update()
\* every backend effect is the counterpart of a live model effect.
C19_BackendEffectDestroyed ==
    [][(Updated /\ ~panicked') =>
        \A h \in LiveHandles(nativeEffects') :
            \E i \in 1..Len(effects'.records) :
                /\ effects'.records[i].payload # Vacant
                /\ effects'.records[i].payload.native = h]_vars

\* The effect has one input, unfiltered, whose source is live and Playing.
SinglePlayingInput(eff) ==
    /\ eff.variant # "Stub"
    /\ Len(eff.inputs) = 1
    /\ eff.inputs[1].filter = NoFilter
    /\ IsValidHandle(sources, eff.inputs[1].source)
    /\ Borrow(sources, eff.inputs[1].source).val["status"] = "Playing"

\* C20 Click-free ramp: when an effect with a single unfiltered input whose
\* source is Playing renders amount samples, sample i (from 0) is the
\* source's sample times lerp(prev, d, i / amount), where d is the source's
\* distance gain now and prev the one of the previous render, or d when no
\* gain was cached; d is then cached. (Frames are in units of 1/amount.)
C20_ClickFreeRamp ==
    [][\A h \in LiveHandles(nativeEffects) :
        LET eff == Borrow(nativeEffects, h)
            after == Borrow(nativeEffects', h)
            input == eff.inputs[1]
            source == Borrow(sources, input.source)
            d == 2 - source.position
            prev == IF input.last_distance_gain = NoGain THEN d
                    ELSE input.last_distance_gain
            amount == Len(after.frame_samples)
            sample == source.val["gain"]
        IN  (Call("render", "", h) \in calls' /\ SinglePlayingInput(eff))
            => /\ ~panicked'
               /\ amount \in RenderAmounts
               /\ after.inputs[1].last_distance_gain = d
               /\ \A i \in 0..(amount - 1) :
                     after.frame_samples[i + 1]
                       = <<sample * (prev * amount + (d - prev) * i),
                           sample * (prev * amount + (d - prev) * i)>>]_vars

\* A render just ramped the gain of a single input: its source moved since
\* the previous render, so the samples of the frame differ.
C20_Witness ==
    \E h \in LiveHandles(nativeEffects) :
        /\ Call("render", "", h) \in calls
        /\ SinglePlayingInput(Borrow(nativeEffects, h))
        /\ Borrow(nativeEffects, h).frame_samples[1]
             # Borrow(nativeEffects, h).frame_samples[2]

\* C24 renderer() returns the current renderer: the renderer the model
\* reports is the renderer installed in the backend.
C24_RendererIsCurrent == Renderer(World) = settings.native.renderer

\* Removing handle h turned pool before into pool after: h stopped resolving
\* and every other live handle resolves to the entry it resolved to.
OnlyRemoved(before, after, h) ==
    /\ ~IsValidHandle(after, h)
    /\ \A g \in LiveHandles(before) \ {h} :
          IsValidHandle(after, g) /\ Borrow(after, g) = Borrow(before, g)

\* C22 Removal invalidates only the removed entry: remove_effect(h) and the
\* remove_source of remove_sound make h stop resolving and leave every other
\* live handle of that arena resolving to the same entry, and the other
\* arenas as they were.
C22_RemovalInvalidatesOnlyRemoved ==
    [][/\ \A h \in LiveHandles(effects) :
            TickRemoveEffect(h)
            => /\ OnlyRemoved(effects, effects', h)
               /\ sources' = sources /\ nativeEffects' = nativeEffects
       /\ \A c \in calls' :
            c.op = "remove_source"
            => /\ c.handle \in LiveHandles(sources)
               /\ OnlyRemoved(sources, sources', c.handle)
               /\ effects' = effects /\ nativeEffects' = nativeEffects]_vars

\* A source was just removed while another source is live, in a state where
\* an effect was removed earlier and another effect is live.
C22_Witness ==
    /\ \E c \in calls : c.op = "remove_source"
    /\ LiveHandles(sources) # {}
    /\ effects.free_stack # <<>>
    /\ LiveHandles(effects) # {}

\* The source handles held outside the source arena: the native handle of
\* every sound and the source of every effect input.
HeldHandles ==
    {sounds[s].native : s \in SoundIds}
      \cup UNION {InputSources(Borrow(nativeEffects, h)) :
                     h \in LiveHandles(nativeEffects)}

\* C23 Stale handles never alias a new occupant: a held handle that does not
\* resolve never resolves again, a source that is added gets a handle nobody
\* holds, and a render keeps only inputs whose handle resolves and does not
\* fail.
C23_StaleNeverAliases ==
    [][/\ \A h \in HeldHandles :
            ~IsValidHandle(sources, h) => ~IsValidHandle(sources', h)
       /\ \A c \in calls' :
            /\ c.op = "add_source" => c.handle \notin HeldHandles
            /\ c.op = "render"
                 => /\ ~panicked'
                    /\ \A src \in InputSources(Borrow(nativeEffects', c.handle)) :
                          IsValidHandle(sources', src)]_vars

\* An effect input holds a handle that no longer resolves while the slot it
\* points to is occupied again by a newer source.
C23_Witness ==
    \E h \in LiveHandles(nativeEffects) :
        \E src \in InputSources(Borrow(nativeEffects, h)) :
            /\ ~IsValidHandle(sources, src)
            /\ sources.records[src.index].payload # Vacant

\* C21 Gain clamp: set_gain(g) stores 0 for every g < 0 and g for every
\* g >= 0, never fails, and the stored gain of an effect is never negative.
C21_GainClamp ==
    /\ [](\A h \in LiveHandles(nativeEffects) :
             Borrow(nativeEffects, h).val["gain"] >= 0)
    /\ [][\A h \in LiveHandles(nativeEffects) : \A g \in Gains :
            SetEffectGain(h, g)
            => /\ ~panicked'
               /\ Borrow(nativeEffects', h).val["gain"]
                    = IF g < 0 THEN 0 ELSE g]_vars

\* set_gain was just called on an effect whose gain was positive and is now
\* 0: the clamp acted, or 0 was given.
C21_Witness ==
    \E h \in LiveHandles(nativeEffects) :
        /\ Call("set_gain", "", h) \in calls
        /\ Borrow(nativeEffects, h).val["gain"] = 0

\* Whether input is fed by a source of srcs that is Playing.
IsPlaying(srcs, input) ==
    /\ IsValidHandle(srcs, input.source)
    /\ Borrow(srcs, input.source).val["status"] = "Playing"

\* C25: a render of a BaseEffect keeps every input whose source resolves,
\* in order, whatever the status of the source; an input whose source is not
\* Playing is left exactly as it was (cached distance gain and filter state)
\* and adds nothing to the frame: the frame is the one the Playing inputs
\* alone give.
C25_SilentRetained ==
    [][\A h \in LiveHandles(nativeEffects), amount \in MixAmounts :
          MixRender(h, amount)
          => LET eff == Borrow(nativeEffects, h)
                 after == Borrow(nativeEffects', h)
                 valid == SelectSeq(eff.inputs,
                              LAMBDA input : IsValidHandle(sources, input.source))
                 playing == SelectSeq(eff.inputs,
                              LAMBDA input : IsPlaying(sources, input))
                 alone == BaseEffectRender([eff EXCEPT !.inputs = playing],
                                           sources, amount)
             IN  /\ Len(after.inputs) = Len(valid)
                 /\ \A k \in 1..Len(valid) :
                      /\ after.inputs[k].source = valid[k].source
                      /\ ~IsPlaying(sources, valid[k]) => after.inputs[k] = valid[k]
                 /\ after.frame_samples = alone.effect.frame_samples]_vars

\* A render has just skipped a filtered input of a Paused source that holds
\* a cached gain, older than the move of the source, and an advanced filter.
C25_Witness ==
    /\ ~panicked
    /\ \E h \in LiveHandles(nativeEffects) :
         /\ Call("render", "", h) \in calls
         /\ \E k \in 1..Len(Borrow(nativeEffects, h).inputs) :
              LET input == Borrow(nativeEffects, h).inputs[k]
              IN  /\ Borrow(sources, input.source).val["status"] = "Paused"
                  /\ input.last_distance_gain # NoGain
                  /\ input.last_distance_gain # DistanceGain(Borrow(sources, input.source))
                  /\ input.filter \notin {NoFilter, InputFilterNew(DelayBiquad)}

\* What a filter in the given state answers to the i-th of the samples, the
\* samples before it having been fed in order.
RECURSIVE FilteredSample(_, _, _)
FilteredSample(filter, samples, i) ==
    LET fed == FilterFeed(filter, samples[1][1], samples[1][2])
    IN  IF i = 1 THEN fed.out
        ELSE FilteredSample(fed.state, Tail(samples), i - 1)

\* What input adds to sample i of a frame of amount samples, in units of
\* 1/amount: its raw or filtered sample i times the ramp gain of sample i.
Contribution(srcs, input, amount, i) ==
    LET source == Borrow(srcs, input.source)
        gain == DistanceGain(source)
        prev == IF input.last_distance_gain = NoGain THEN gain
                ELSE input.last_distance_gain
        g == prev * amount + (gain - prev) * (i - 1)
        in == IF input.filter = NoFilter THEN SourceFrame(source, amount)[i]
              ELSE FilteredSample(input.filter, SourceFrame(source, amount), i)
    IN  <<in[1] * g, in[2] * g>>

\* The sum of what the inputs with a valid Playing source add to sample i.
RECURSIVE MixSum(_, _, _, _)
MixSum(srcs, inputs, amount, i) ==
    IF inputs = <<>> THEN <<0, 0>>
    ELSE LET rest == MixSum(srcs, Tail(inputs), amount, i)
             c == Contribution(srcs, Head(inputs), amount, i)
         IN  IF IsPlaying(srcs, Head(inputs))
             THEN <<c[1] + rest[1], c[2] + rest[2]>>
             ELSE rest

\* C26: after render(amount) of a BaseEffect the scratch buffer holds exactly
\* amount samples, and sample i is the sum, over the inputs whose source
\* resolves and is Playing, of the source's raw or filtered sample i times
\* its ramp gain; with no such input every sample is (0, 0), whatever the
\* buffer held before.
C26_ZeroBasedMix ==
    [][\A h \in LiveHandles(nativeEffects), amount \in MixAmounts :
          MixRender(h, amount)
          => LET eff == Borrow(nativeEffects, h)
                 after == Borrow(nativeEffects', h)
             IN  /\ Len(after.frame_samples) = amount
                 /\ \A i \in 1..amount :
                      after.frame_samples[i] =
                          MixSum(sources, eff.inputs, amount, i)]_vars

\* A render has just mixed a direct and a filtered Playing input into a frame
\* of one sample that is not silent.
C26_Witness ==
    /\ ~panicked
    /\ \E h \in LiveHandles(nativeEffects) :
         LET eff == Borrow(nativeEffects, h)
         IN  /\ Call("render", "", h) \in calls
             /\ Len(eff.frame_samples) = 1
             /\ eff.frame_samples[1] # <<0, 0>>
             /\ \E k, j \in 1..Len(eff.inputs) :
                  /\ eff.inputs[k].filter = NoFilter
                  /\ eff.inputs[j].filter # NoFilter
                  /\ eff.inputs[j].last_distance_gain # NoGain
                  /\ IsPlaying(sources, eff.inputs[k])
                  /\ IsPlaying(sources, eff.inputs[j])

RECURSIVE FedState(_, _)
FedState(filter, samples) ==
    IF samples = <<>> THEN filter
    ELSE FedState(FilterFeed(filter, Head(samples)[1], Head(samples)[2]).state,
                  Tail(samples))

\* The place input k of inputs has after the inputs whose source is gone are
\* dropped.
KeptIndex(srcs, inputs, k) ==
    Len(SelectSeq(SubSeq(inputs, 1, k),
                  LAMBDA input : IsValidHandle(srcs, input.source)))

\* C28: for a filtered input whose source is Playing, a render feeds each raw
\* sample of the frame to the input's own filter, once and in order, and the
\* ramp gain multiplies what the filter answers; the state the filter is left
\* in is the state the next render starts from, no other call touches it, and
\* inputs do not share it.
C28_FilterBeforeGain ==
    [][/\ \A h \in LiveHandles(nativeEffects), amount \in MixAmounts :
            MixRender(h, amount)
            => LET eff == Borrow(nativeEffects, h)
                   after == Borrow(nativeEffects', h)
               IN  \A k \in 1..Len(eff.inputs) :
                      LET input == eff.inputs[k]
                          source == Borrow(sources, input.source)
                          samples == SourceFrame(source, amount)
                          now == DistanceGain(source)
                          prev == IF input.last_distance_gain = NoGain THEN now
                                  ELSE input.last_distance_gain
                      IN  (IsPlaying(sources, input) /\ input.filter # NoFilter)
                          => /\ after.inputs[KeptIndex(sources, eff.inputs, k)].filter
                                = FedState(input.filter, samples)
                             /\ Len(eff.inputs) = 1
                                => \A i \in 1..amount :
                                     LET out == FilteredSample(input.filter, samples, i)
                                         g == prev * amount + (now - prev) * (i - 1)
                                     IN  after.frame_samples[i] =
                                             <<out[1] * g, out[2] * g>>
       /\ (\A h \in LiveHandles(nativeEffects), amount \in MixAmounts :
               ~MixRender(h, amount))
          => \A h \in LiveHandles(nativeEffects) :
                \A k \in 1..Len(Borrow(nativeEffects, h).inputs) :
                   Borrow(nativeEffects', h).inputs[k].filter
                   = Borrow(nativeEffects, h).inputs[k].filter]_vars

\* A render has just mixed two samples of a single filtered input: the first
\* is what the filter kept from the frame before, and the ramp gain differs
\* between the two.
C28_Witness ==
    /\ ~panicked
    /\ \E h \in LiveHandles(nativeEffects) :
         LET eff == Borrow(nativeEffects, h)
         IN  /\ Call("render", "", h) \in calls
             /\ Len(eff.inputs) = 1
             /\ eff.inputs[1].filter # NoFilter
             /\ IsPlaying(sources, eff.inputs[1])
             /\ Len(eff.frame_samples) = 2
             /\ eff.frame_samples[1] # <<0, 0>>
             /\ eff.frame_samples[2] # <<0, 0>>
             /\ eff.frame_samples[1] # eff.frame_samples[2]

\* C29: the frame a render of a BaseEffect produces, the inputs it keeps and
\* what it caches in them are the same whatever the gain of the effect, and
\* the render leaves the gain, as every other field of the effect, as it was.
C29_GainOutsideRender ==
    [][\A h \in LiveHandles(nativeEffects), amount \in RenderAmounts :
          Render(h, amount)
          => LET eff == Borrow(nativeEffects, h)
                 after == Borrow(nativeEffects', h)
             IN  /\ after.val = eff.val
                 /\ \A g \in Gains :
                      LET other == EffectRender(
                                       [eff EXCEPT !.val["gain"] = SetGain(g)],
                                       sources, amount).effect
                      IN  /\ other.inputs = after.inputs
                          /\ other.frame_samples = after.frame_samples
                 /\ \A i \in 1..amount :
                      after.frame_samples[i] = MixSum(sources, eff.inputs, amount, i)
                 /\ \A k \in 1..Len(after.inputs) :
                      after.inputs[k].last_distance_gain =
                          DistanceGain(Borrow(sources, after.inputs[k].source))]_vars

\* An effect whose gain was set to 0 has just rendered a frame that is not
\* silent, from an input whose gain it cached.
C29_Witness ==
    /\ ~panicked
    /\ \E h \in LiveHandles(nativeEffects) :
         LET eff == Borrow(nativeEffects, h)
         IN  /\ Call("render", "", h) \in calls
             /\ eff.val["gain"] = 0
             /\ eff.inputs # <<>>
             /\ eff.inputs[1].last_distance_gain # NoGain
             /\ eff.frame_samples # <<>>
             /\ eff.frame_samples[1] # <<0, 0>>

\* C30: a render of an effect whose variant is Stub changes nothing: the
\* scratch buffer, the input list with its dangling inputs, what each input
\* caches and the gain of the effect are as before, as are the sources, and
\* the render does not fail.
C30_StubRenderNoOp ==
    [][\A h \in LiveHandles(nativeEffects), amount \in RenderAmounts :
          (Render(h, amount) /\ Borrow(nativeEffects, h).variant = "Stub")
          => /\ ~panicked'
             /\ nativeEffects' = nativeEffects
             /\ sources' = sources]_vars

\* A Stub has just been rendered that holds an input whose source is gone
\* and an input of a Playing source.
C30_Witness ==
    /\ ~panicked
    /\ \E h \in LiveHandles(nativeEffects) :
         LET eff == Borrow(nativeEffects, h)
         IN  /\ eff.variant = "Stub"
             /\ Call("render", "", h) \in calls
             /\ eff.frame_samples = <<>>
             /\ \E k, j \in 1..Len(eff.inputs) :
                  /\ ~IsValidHandle(sources, eff.inputs[k].source)
                  /\ IsPlaying(sources, eff.inputs[j])
                  /\ eff.inputs[j].last_distance_gain = NoGain

\* C31: a sync_to_sound that creates source S for a sound whose effect_name
\* finds a model effect bound to a live backend effect E appends exactly one
\* input to E, which references S and has no filter and no cached gain, and
\* changes the input list of no other backend effect; when effect_name finds
\* no model effect, no backend effect changes.
C31_CreationWiresOneInput ==
    [][\A s \in SoundIds, node_overrides \in OverrideChoices :
          (/\ TickSyncToSound(s, node_overrides)
           /\ Branch(World, s, node_overrides) = "create")
          => LET i == FindEffect(effects, sounds[s].effect_name)
                 h == effects.records[i].payload.native
                 new == sounds'[s].native
             IN  /\ IsValidHandle(sources', new)
                 /\ ~IsValidHandle(sources, new)
                 /\ i = 0 => nativeEffects' = nativeEffects
                 /\ (i # 0 /\ IsValidHandle(nativeEffects, h))
                    => /\ ~panicked'
                       /\ Borrow(nativeEffects', h).inputs =
                            Append(Borrow(nativeEffects, h).inputs,
                                   [source |-> new, filter |-> NoFilter,
                                    last_distance_gain |-> NoGain])
                       /\ \A k \in 1..Len(Borrow(nativeEffects, h).inputs) :
                            Borrow(nativeEffects, h).inputs[k].source # new
                       /\ \A o \in LiveHandles(nativeEffects) \ {h} :
                            Borrow(nativeEffects', o) = Borrow(nativeEffects, o)
                       /\ LiveHandles(nativeEffects') = LiveHandles(nativeEffects)]_vars

\* A sync_to_sound has just created a source and wired it to one of two live
\* backend effects, the other one holding an input already.
C31_Witness ==
    /\ ~panicked
    /\ last.branch = "create"
    /\ \E h, o \in LiveHandles(nativeEffects) :
         /\ h # o
         /\ Call("add_input", "", h) \in calls
         /\ Borrow(nativeEffects, o).inputs # <<>>
         /\ \E k \in 1..Len(Borrow(nativeEffects, h).inputs) :
              Borrow(nativeEffects, h).inputs[k].source = sounds[last.sound].native

\* A sync_to_sound has just created a source for a sound whose effect_name
\* names no model effect, while a backend effect is live.
C31_WitnessDry ==
    /\ ~panicked
    /\ last.branch = "create"
    /\ FindEffect(effects, sounds[last.sound].effect_name) = 0
    /\ LiveHandles(nativeEffects) # {}

\* C32: sync_to_sound of a disabled or override-excluded sound whose handle
\* is unbound or does not resolve makes no backend call, leaves the backend
\* sources and effects as they are and the handle unbound, and changes
\* nothing else; called again, it changes nothing at all.
C32_DisabledSyncIdempotent ==
    [][\A s \in SoundIds :
          (/\ last'.sound = s
           /\ last'.branch = "disabled"
           /\ ~IsValidHandle(sources, sounds[s].native))
          => /\ ~panicked'
             /\ calls' = {}
             /\ sources' = sources
             /\ nativeEffects' = nativeEffects
             /\ effects' = effects
             /\ sounds' = [sounds EXCEPT ![s].native = NONE]
             /\ sounds[s].native = NONE => sounds' = sounds]_vars

\* A disabled or excluded sound with nothing bound has just been synced, with
\* no backend call, while the source of another sound lives in the slot its
\* handle once named.
C32_Witness ==
    /\ ~panicked
    /\ last.branch = "disabled"
    /\ calls = {}
    /\ sounds[last.sound].native = NONE
    /\ \E o \in SoundIds \ {last.sound} :
         /\ IsValidHandle(sources, sounds[o].native)
         /\ sounds[o].native.generation > 1

\* The handles bound in the native fields of the sounds.
BoundHandles == {sounds[s].native : s \in SoundIds} \ {NONE}

\* C33: whatever sync_to_sound calls, writes, toggles, override sets and
\* construction failures came before, the live backend sources are exactly
\* the handles bound in the sounds' native fields, and no two sounds are
\* bound to the same source.
C33_OneOwnerPerSource ==
    /\ LiveHandles(sources) = BoundHandles
    /\ \A s, o \in SoundIds :
         (s # o /\ sounds[s].native = sounds[o].native) => sounds[s].native = NONE

\* The construction of a sound's source has just failed, the sound is
\* unbound, and another sound is bound to a slot that held a source before.
C33_Witness ==
    /\ ~panicked
    /\ last.branch = "failed"
    /\ sounds[last.sound].native = NONE
    /\ \E h \in BoundHandles : h.generation > 1

\* C34: when control code has written a status since the last sync_to_sound
\* of a bound sound and sync_with_sound has run in between, the status the
\* next sync_to_sound leaves in the backend source is the one control code
\* wrote.
C34_WriteSurvivesReverseSync ==
    [][\A s \in Driven :
          (/\ last'.sound = s
           /\ last'.branch = "bound"
           /\ ~panicked'
           /\ "status" \in hist[s].written
           /\ hist[s].pulled)
          => Borrow(sources', sounds[s].native).val["status"]
                 \in FieldValues("status")]_vars

\* A control tick from this state makes no call that changes the backend.
Settled ==
    LET next == ControlTickOp(World)
    IN  /\ ~next.panicked
        /\ {c \in next.calls : c.op # "build"} = {}
        /\ next.sources = sources
        /\ next.nativeEffects = nativeEffects

\* C35: no control tick fails, and once SettleTicks control ticks have passed
\* with no write between them, a further tick changes nothing in the backend,
\* no change flag of a sound or of an effect is set, and every field of a
\* bound sound's source that sync_to_sound pushes has the model's value.
C35_ReconciliationConverges ==
    /\ TicksPassed > 0 => ~panicked
    /\ TicksPassed >= SettleTicks
       => /\ Settled
          /\ \A s \in SoundIds : sounds[s].need_sync = {}
          /\ \A h \in LiveHandles(effects) : Borrow(effects, h).need_sync = {}
          /\ \A s \in SoundIds :
               IsValidHandle(sources, sounds[s].native)
               => \A f \in Fields :
                     Borrow(sources, sounds[s].native).val[f] = sounds[s].val[f]

\* C36: whatever update and sync_to_sound calls came before (creation,
\* effect_name changed among the effects and back, a sync repeated with the
\* flag of effect_name still set), no backend effect holds two inputs that
\* reference the same source.
C36_NoDuplicateInputs ==
    \A h \in LiveHandles(nativeEffects) :
        LET inputs == Borrow(nativeEffects, h).inputs
        IN  \A k, j \in 1..Len(inputs) :
               inputs[k].source = inputs[j].source => k = j

\* The effect_name of a bound sound was changed to another effect and back:
\* the sync_to_sound just made has removed the input the effect held for the
\* source and added it again, and the other effect still holds one.
C36_Witness ==
    /\ ~panicked
    /\ last.branch = "bound"
    /\ \E h, o \in LiveHandles(nativeEffects) :
         /\ h # o
         /\ {Call("remove_input", "", h), Call("add_input", "", h)} \subseteq calls
         /\ \E k \in 1..Len(Borrow(nativeEffects, o).inputs) :
              Borrow(nativeEffects, o).inputs[k].source = sounds[last.sound].native

\* The slots of the model effects that are bound to a backend effect.
BoundEffects(pool) ==
    {i \in 1..Len(pool.records) :
        /\ pool.records[i].payload # Vacant
        /\ IsSome(pool.records[i].payload.native)}

\* C37: update() calls backend add_effect only for a model effect whose
\* native handle is unbound, and binds it to the handle returned; a model
\* effect that is bound keeps its handle for as long as it lives, and two
\* model effects are never bound to the same backend effect.
C37_OneBackendEffectPerModelEffect ==
    [][/\ \A c \in calls' :
             c.op = "add_effect"
             => \E i \in 1..Len(effects.records) :
                   /\ effects.records[i].payload # Vacant
                   /\ ~IsSome(effects.records[i].payload.native)
                   /\ effects'.records[i].payload.native = c.handle
       /\ \A i \in BoundEffects(effects) :
             effects'.records[i].payload # Vacant
             => effects'.records[i].payload.native
                    = effects.records[i].payload.native
       /\ \A i, j \in BoundEffects(effects') :
             effects'.records[i].payload.native
                 = effects'.records[j].payload.native => i = j]_vars

\* Two model effects are bound, and the update() just made bound neither:
\* it found a change flag set and pushed the field to the backend effect.
C37_Witness ==
    /\ ~panicked
    /\ Cardinality(BoundEffects(effects)) >= 2
    /\ \E c \in calls : c.op = "set_effect"
    /\ \A c \in calls : c.op # "add_effect"

\* C38: sync_with_sound and set_sound_position of a sound whose native handle
\* is unbound, or bound to a source the backend no longer holds, return
\* normally and change nothing: the model of the sound (status, playback
\* time, change flags) and the backend are as they were, and no backend call
\* is made.
C38_UnresolvedHandleNoOp ==
    [][\A s \in SoundIds :
          (/\ last'.sound = s
           /\ last'.branch \in {"pull", "position"}
           /\ ~IsValidHandle(sources, sounds[s].native))
          => /\ ~panicked'
             /\ calls' = {}
             /\ sounds' = sounds
             /\ sources' = sources
             /\ nativeEffects' = nativeEffects
             /\ effects' = effects]_vars

\* sync_with_sound was just called for a sound whose handle is stale: its
\* source was destroyed and the slot now holds the source of another sound,
\* whose status differs from the one the model of the sound holds.
C38_Witness ==
    /\ ~panicked
    /\ last.branch = "pull"
    /\ LET h == sounds[last.sound].native
       IN  /\ IsSome(h)
           /\ ~IsValidHandle(sources, h)
           /\ h.index \in 1..Len(sources.records)
           /\ Borrow(sources, h) # Vacant
           /\ Borrow(sources, h).val["status"]
                  # sounds[last.sound].val["status"]

\* set_sound_position was just called for a sound that was moved and whose
\* handle is unbound.
C38_WitnessPosition ==
    /\ ~panicked
    /\ last.branch = "position"
    /\ sounds[last.sound].native = NONE
    /\ sounds[last.sound].position # 0

====
